---- MODULE Spec2Model ----
(***************************************************************************)
(* A model of the ominzk (c2zk) compiler back ends.                        *)
(*                                                                         *)
(*  - SpecTriton: the Triton VM running the expected listings of the       *)
(*    codegen-tritonvm sem_tests (nested_block_br, locals, fib): the       *)
(*    outlined block procedures, the Br/BrIf lowering and the propagation  *)
(*    checks as the tests pin them down.                                   *)
(*  - SpecMiden: codegen-midenvm's compile_module / compile_function /     *)
(*    emit_inst filling the instruction buffer.                            *)
(*  - SpecValida: the frame-pointer slots that func_lowering.rs assigns to *)
(*    locals, parameters and the operand stack.                            *)
(***************************************************************************)
EXTENDS Integers, Sequences, FiniteSets, TLC

\* ------------------------------------------------------------------------
\* Triton listings
\* ------------------------------------------------------------------------

\* An instruction line of a listing: its mnemonic, its numeric operand (push,
\* dup, swap) and its label operand (call).
I(op) == [op |-> op, n |-> 0, l |-> ""]
N(op, n) == [op |-> op, n |-> n, l |-> ""]
C(l) == [op |-> "call", n |-> 0, l |-> l]


\* Variants of single procedures of the listings (one line changed each).

\* main_l0_b0_l1_b0 with br 1 storing its depth, 1, instead of depth + 1.
NB_main_l0_b0_l1_b0_StoresDepth ==
  << N("push", 8),
     C("c2zk_stdlib_pub_output"),
     N("push", 1),
     N("push", 1),
     C("globals_set"),
     I("return"),
     N("push", 11),
     C("c2zk_stdlib_pub_output"),
     I("return") >>

\* next_br_propagation writing the signal back without decrementing it.
NB_next_br_propagation_NoDecrement ==
  << N("push", 1),
     C("globals_get"),
     N("dup", 0),
     N("push", 0),
     I("eq"),
     I("skiz"),
     I("return"),
     N("dup", 0),
     N("push", 1),
     C("globals_set"),
     I("return") >>

\* c2zk_stdlib_pub_output opening with a propagation check of its own.
NB_c2zk_stdlib_pub_output_Checked ==
  << C("next_br_propagation"),
     I("skiz"),
     I("return"),
     N("push", 0),
     C("globals_get"),
     N("push", -4),
     I("add"),
     N("dup", 0),
     N("swap", 2),
     I("write_mem"),
     I("pop"),
     N("push", 0),
     C("globals_set"),
     N("push", 0),
     C("globals_get"),
     I("read_mem"),
     N("swap", 1),
     I("pop"),
     I("write_io"),
     N("push", 0),
     C("globals_get"),
     N("push", 4),
     I("add"),
     N("push", 0),
     C("globals_set"),
     I("return") >>

\* main_l0_b0_l1_b0 whose lowered br 1 stores the signal and does not return.
NB_main_l0_b0_l1_b0_NoReturn ==
  << N("push", 8),
     C("c2zk_stdlib_pub_output"),
     N("push", 2),
     N("push", 1),
     C("globals_set"),
     N("push", 11),
     C("c2zk_stdlib_pub_output"),
     I("return") >>

\* main with a propagation check behind the call of main_l0_b0 as well.
NB_main_ExtraCheck ==
  << C("init_mem_for_locals"),
     C("main_l0_b0"),
     C("next_br_propagation"),
     I("skiz"),
     I("return"),
     N("push", 7),
     C("c2zk_stdlib_pub_output"),
     I("return"),
     I("return") >>

\* add whose epilogue moves the frame base back by one cell instead of two.
AD_add_Restores4 ==
  << N("push", -1),
     C("globals_get"),
     N("dup", 0),
     N("swap", 2),
     I("write_mem"),
     I("pop"),
     I("pop"),
     N("push", -4),
     I("add"),
     N("dup", 0),
     N("swap", 2),
     I("write_mem"),
     I("pop"),
     I("pop"),
     N("push", -4),
     I("add"),
     N("push", -1),
     C("globals_set"),
     N("push", -1),
     C("globals_get"),
     N("push", 4),
     I("add"),
     N("push", 0),
     I("read_mem"),
     N("swap", 1),
     I("pop"),
     N("push", -1),
     C("globals_get"),
     N("push", 8),
     I("add"),
     N("push", 0),
     I("read_mem"),
     N("swap", 1),
     I("pop"),
     I("add"),
     N("push", -1),
     C("globals_get"),
     N("push", 4),
     I("add"),
     N("push", -1),
     C("globals_set"),
     I("return") >>

\* main_l0_b0 with the call of the inner block's procedure after the trailing
\* code instead of at the block's place.
NB_main_l0_b0_CallLast ==
  << N("push", 3),
     C("c2zk_stdlib_pub_output"),
     N("push", 9),
     C("c2zk_stdlib_pub_output"),
     C("main_l0_b0_l1_b0"),
     C("next_br_propagation"),
     I("skiz"),
     I("return"),
     I("return") >>

\* main_l0_b0 without the propagation check after the call of the inner block.
NB_main_l0_b0_NoCheck ==
  << N("push", 3),
     C("c2zk_stdlib_pub_output"),
     C("main_l0_b0_l1_b0"),
     N("push", 9),
     C("c2zk_stdlib_pub_output"),
     I("return") >>

\* f_l0_b2 whose dispatcher falls through instead of re-entering (no recurse).
FB_f_l0_b2_NoRecurse ==
  << I("nop"),
     I("nop"),
     C("f_l0_b2_l1_b0"),
     N("push", -1),
     I("add"),
     I("skiz"),
     I("return"),
     I("nop"),
     N("push", 1),
     I("return") >>

\* f_l0_b2_l1_b0 whose br_if leaves its flag on the stack when it is not taken.
FB_f_l0_b2_l1_b0_NoPop ==
  << N("push", 1),
     N("swap", 1),
     I("skiz"),
     I("return"),
     I("nop"),
     I("add"),
     I("nop"),
     I("nop"),
     N("push", -1),
     I("add"),
     I("nop"),
     N("push", 0),
     I("nop"),
     N("push", 1),
     I("return") >>


\* block/nested_block_br.rs lines 43-44: the entry trampoline of the expected listing.
NB_entry ==
  << C("main"),                          \*   1  line 43
     I("halt") >>                        \*   2  line 44

\* block/nested_block_br.rs lines 45-53: the procedure globals_set of the expected listing.
NB_globals_set ==
  << N("push", -4),                      \*   3  line 46
     I("mul"),                           \*   4  line 47
     N("push", 2147482623),              \*   5  line 48
     I("add"),                           \*   6  line 49
     N("swap", 1),                       \*   7  line 50
     I("write_mem"),                     \*   8  line 51
     I("pop"),                           \*   9  line 52
     I("return") >>                      \*  10  line 53

\* block/nested_block_br.rs lines 54-77: the procedure c2zk_stdlib_pub_output of the expected listing.
NB_c2zk_stdlib_pub_output ==
  << N("push", 0),                       \*  11  line 55
     C("globals_get"),                   \*  12  line 56
     N("push", -4),                      \*  13  line 57
     I("add"),                           \*  14  line 58
     N("dup", 0),                        \*  15  line 59
     N("swap", 2),                       \*  16  line 60
     I("write_mem"),                     \*  17  line 61
     I("pop"),                           \*  18  line 62
     N("push", 0),                       \*  19  line 63
     C("globals_set"),                   \*  20  line 64
     N("push", 0),                       \*  21  line 65
     C("globals_get"),                   \*  22  line 66
     I("read_mem"),                      \*  23  line 67
     N("swap", 1),                       \*  24  line 68
     I("pop"),                           \*  25  line 69
     I("write_io"),                      \*  26  line 70
     N("push", 0),                       \*  27  line 71
     C("globals_get"),                   \*  28  line 72
     N("push", 4),                       \*  29  line 73
     I("add"),                           \*  30  line 74
     N("push", 0),                       \*  31  line 75
     C("globals_set"),                   \*  32  line 76
     I("return") >>                      \*  33  line 77

\* block/nested_block_br.rs lines 78-86: the procedure globals_get of the expected listing.
NB_globals_get ==
  << N("push", -4),                      \*  34  line 79
     I("mul"),                           \*  35  line 80
     N("push", 2147482623),              \*  36  line 81
     I("add"),                           \*  37  line 82
     I("read_mem"),                      \*  38  line 83
     N("swap", 1),                       \*  39  line 84
     I("pop"),                           \*  40  line 85
     I("return") >>                      \*  41  line 86

\* block/nested_block_br.rs lines 87-93: the procedure main of the expected listing.
NB_main ==
  << C("init_mem_for_locals"),           \*  42  line 88
     C("main_l0_b0"),                    \*  43  line 89
     N("push", 7),                       \*  44  line 90
     C("c2zk_stdlib_pub_output"),        \*  45  line 91
     I("return"),                        \*  46  line 92
     I("return") >>                      \*  47  line 93

\* block/nested_block_br.rs lines 94-98: the procedure init_mem_for_locals of the expected listing.
NB_init_mem_for_locals ==
  << N("push", 2147483647),              \*  48  line 95
     N("push", 0),                       \*  49  line 96
     C("globals_set"),                   \*  50  line 97
     I("return") >>                      \*  51  line 98

\* block/nested_block_br.rs lines 99-108: the procedure main_l0_b0 of the expected listing.
NB_main_l0_b0 ==
  << N("push", 3),                       \*  52  line 100
     C("c2zk_stdlib_pub_output"),        \*  53  line 101
     C("main_l0_b0_l1_b0"),              \*  54  line 102
     C("next_br_propagation"),           \*  55  line 103
     I("skiz"),                          \*  56  line 104
     I("return"),                        \*  57  line 105
     N("push", 9),                       \*  58  line 106
     C("c2zk_stdlib_pub_output"),        \*  59  line 107
     I("return") >>                      \*  60  line 108

\* block/nested_block_br.rs lines 109-118: the procedure main_l0_b0_l1_b0 of the expected listing.
NB_main_l0_b0_l1_b0 ==
  << N("push", 8),                       \*  61  line 110
     C("c2zk_stdlib_pub_output"),        \*  62  line 111
     N("push", 2),                       \*  63  line 112
     N("push", 1),                       \*  64  line 113
     C("globals_set"),                   \*  65  line 114
     I("return"),                        \*  66  line 115
     N("push", 11),                      \*  67  line 116
     C("c2zk_stdlib_pub_output"),        \*  68  line 117
     I("return") >>                      \*  69  line 118

\* block/nested_block_br.rs lines 119-132: the procedure next_br_propagation of the expected listing.
NB_next_br_propagation ==
  << N("push", 1),                       \*  70  line 120
     C("globals_get"),                   \*  71  line 121
     N("dup", 0),                        \*  72  line 122
     N("push", 0),                       \*  73  line 123
     I("eq"),                            \*  74  line 124
     I("skiz"),                          \*  75  line 125
     I("return"),                        \*  76  line 126
     N("push", -1),                      \*  77  line 127
     I("add"),                           \*  78  line 128
     N("dup", 0),                        \*  79  line 129
     N("push", 1),                       \*  80  line 130
     C("globals_set"),                   \*  81  line 131
     I("return") >>                      \*  82  line 132

\* block/nested_block_br.rs lines 43-132: the expected listing, procedure by procedure in
\* the order of the text (the trampoline carries no label).
NestedBlockBrProcs ==
  << [l |-> "", code |-> NB_entry],
     [l |-> "globals_set", code |-> NB_globals_set],
     [l |-> "c2zk_stdlib_pub_output", code |-> NB_c2zk_stdlib_pub_output],
     [l |-> "globals_get", code |-> NB_globals_get],
     [l |-> "main", code |-> NB_main],
     [l |-> "init_mem_for_locals", code |-> NB_init_mem_for_locals],
     [l |-> "main_l0_b0", code |-> NB_main_l0_b0],
     [l |-> "main_l0_b0_l1_b0", code |-> NB_main_l0_b0_l1_b0],
     [l |-> "next_br_propagation", code |-> NB_next_br_propagation] >>

\* locals.rs lines 32-33: the entry trampoline of the expected listing.
LO_entry ==
  << C("main"),                          \*   1  line 32
     I("halt") >>                        \*   2  line 33

\* locals.rs lines 34-36: the procedure c2zk_stdlib_pub_input of the expected listing.
LO_c2zk_stdlib_pub_input ==
  << I("read_io"),                       \*   3  line 35
     I("return") >>                      \*   4  line 36

\* locals.rs lines 37-64: the procedure c2zk_stdlib_pub_output of the expected listing.
LO_c2zk_stdlib_pub_output ==
  << N("push", -1),                      \*   5  line 38
     C("globals_get"),                   \*   6  line 39
     N("dup", 0),                        \*   7  line 40
     N("swap", 2),                       \*   8  line 41
     I("write_mem"),                     \*   9  line 42
     I("pop"),                           \*  10  line 43
     I("pop"),                           \*  11  line 44
     N("push", -1),                      \*  12  line 45
     I("add"),                           \*  13  line 46
     N("push", -1),                      \*  14  line 47
     C("globals_set"),                   \*  15  line 48
     N("push", -1),                      \*  16  line 49
     C("globals_get"),                   \*  17  line 50
     N("push", 1),                       \*  18  line 51
     I("add"),                           \*  19  line 52
     N("push", 0),                       \*  20  line 53
     I("read_mem"),                      \*  21  line 54
     N("swap", 1),                       \*  22  line 55
     I("pop"),                           \*  23  line 56
     I("write_io"),                      \*  24  line 57
     N("push", -1),                      \*  25  line 58
     C("globals_get"),                   \*  26  line 59
     N("push", 1),                       \*  27  line 60
     I("add"),                           \*  28  line 61
     N("push", -1),                      \*  29  line 62
     C("globals_set"),                   \*  30  line 63
     I("return") >>                      \*  31  line 64

\* locals.rs lines 65-67: the procedure c2zk_stdlib_secret_input of the expected listing.
LO_c2zk_stdlib_secret_input ==
  << I("divine"),                        \*  32  line 66
     I("return") >>                      \*  33  line 67

\* locals.rs lines 68-109: the procedure main of the expected listing.
LO_main ==
  << C("init_mem_for_locals"),           \*  34  line 69
     N("push", -1),                      \*  35  line 70
     C("globals_get"),                   \*  36  line 71
     N("push", -1),                      \*  37  line 72
     I("add"),                           \*  38  line 73
     N("push", -1),                      \*  39  line 74
     C("globals_set"),                   \*  40  line 75
     N("push", 9),                       \*  41  line 76
     N("push", -1),                      \*  42  line 77
     C("globals_get"),                   \*  43  line 78
     N("swap", 1),                       \*  44  line 79
     N("swap", 1),                       \*  45  line 80
     N("push", 1),                       \*  46  line 81
     I("add"),                           \*  47  line 82
     N("swap", 1),                       \*  48  line 83
     I("write_mem"),                     \*  49  line 84
     I("pop"),                           \*  50  line 85
     I("pop"),                           \*  51  line 86
     N("push", -1),                      \*  52  line 87
     C("globals_get"),                   \*  53  line 88
     N("push", 1),                       \*  54  line 89
     I("add"),                           \*  55  line 90
     N("push", 0),                       \*  56  line 91
     I("read_mem"),                      \*  57  line 92
     N("swap", 1),                       \*  58  line 93
     I("pop"),                           \*  59  line 94
     C("c2zk_stdlib_pub_output"),        \*  60  line 95
     N("push", -1),                      \*  61  line 96
     C("globals_get"),                   \*  62  line 97
     N("push", 1),                       \*  63  line 98
     I("add"),                           \*  64  line 99
     N("push", -1),                      \*  65  line 100
     C("globals_set"),                   \*  66  line 101
     I("return"),                        \*  67  line 102
     N("push", -1),                      \*  68  line 103
     C("globals_get"),                   \*  69  line 104
     N("push", 1),                       \*  70  line 105
     I("add"),                           \*  71  line 106
     N("push", -1),                      \*  72  line 107
     C("globals_set"),                   \*  73  line 108
     I("return") >>                      \*  74  line 109

\* locals.rs lines 110-114: the procedure init_mem_for_locals of the expected listing.
LO_init_mem_for_locals ==
  << N("push", 2147483643),              \*  75  line 111
     N("push", -1),                      \*  76  line 112
     C("globals_set"),                   \*  77  line 113
     I("return") >>                      \*  78  line 114

\* locals.rs lines 115-122: the procedure globals_get of the expected listing.
LO_globals_get ==
  << N("push", 2147483647),              \*  79  line 116
     I("add"),                           \*  80  line 117
     N("push", 0),                       \*  81  line 118
     I("read_mem"),                      \*  82  line 119
     N("swap", 1),                       \*  83  line 120
     I("pop"),                           \*  84  line 121
     I("return") >>                      \*  85  line 122

\* locals.rs lines 123-130: the procedure globals_set of the expected listing.
LO_globals_set ==
  << N("push", 2147483647),              \*  86  line 124
     I("add"),                           \*  87  line 125
     N("swap", 1),                       \*  88  line 126
     I("write_mem"),                     \*  89  line 127
     I("pop"),                           \*  90  line 128
     I("pop"),                           \*  91  line 129
     I("return") >>                      \*  92  line 130

\* locals.rs lines 32-130: the expected listing, procedure by procedure in
\* the order of the text (the trampoline carries no label).
LocalsProcs ==
  << [l |-> "", code |-> LO_entry],
     [l |-> "c2zk_stdlib_pub_input", code |-> LO_c2zk_stdlib_pub_input],
     [l |-> "c2zk_stdlib_pub_output", code |-> LO_c2zk_stdlib_pub_output],
     [l |-> "c2zk_stdlib_secret_input", code |-> LO_c2zk_stdlib_secret_input],
     [l |-> "main", code |-> LO_main],
     [l |-> "init_mem_for_locals", code |-> LO_init_mem_for_locals],
     [l |-> "globals_get", code |-> LO_globals_get],
     [l |-> "globals_set", code |-> LO_globals_set] >>

\* fib.rs lines 146-147: the entry trampoline of the expected listing.
FB_entry ==
  << C("f"),                             \*   1  line 146
     I("halt") >>                        \*   2  line 147

\* fib.rs lines 148-150: the procedure c2zk_stdlib_pub_input of the expected listing.
FB_c2zk_stdlib_pub_input ==
  << I("read_io"),                       \*   3  line 149
     I("return") >>                      \*   4  line 150

\* fib.rs lines 151-153: the procedure c2zk_stdlib_pub_output of the expected listing.
FB_c2zk_stdlib_pub_output ==
  << I("write_io"),                      \*   5  line 152
     I("return") >>                      \*   6  line 153

\* fib.rs lines 154-156: the procedure f of the expected listing.
FB_f_1 ==
  << C("f"),                             \*   7  line 155
     I("return") >>                      \*   8  line 156

\* fib.rs lines 157-177: the procedure f of the expected listing.
FB_f_2 ==
  << C("f_l0_b0"),                       \*   9  line 158
     N("push", -1),                      \*  10  line 159
     I("add"),                           \*  11  line 160
     I("skiz"),                          \*  12  line 161
     I("return"),                        \*  13  line 162
     N("push", 7),                       \*  14  line 163
     I("nop"),                           \*  15  line 164
     I("nop"),                           \*  16  line 165
     C("f_l0_b1"),                       \*  17  line 166
     N("push", -1),                      \*  18  line 167
     I("add"),                           \*  19  line 168
     I("skiz"),                          \*  20  line 169
     I("return"),                        \*  21  line 170
     C("f_l0_b2"),                       \*  22  line 171
     N("push", -1),                      \*  23  line 172
     I("add"),                           \*  24  line 173
     I("skiz"),                          \*  25  line 174
     I("return"),                        \*  26  line 175
     C("f"),                             \*  27  line 176
     I("return") >>                      \*  28  line 177

\* fib.rs lines 178-180: the procedure f of the expected listing.
FB_f_3 ==
  << C("c2zk_stdlib_pub_input"),         \*  29  line 179
     I("return") >>                      \*  30  line 180

\* fib.rs lines 181-183: the procedure f of the expected listing.
FB_f_4 ==
  << C("c2zk_stdlib_pub_output"),        \*  31  line 182
     I("return") >>                      \*  32  line 183

\* fib.rs lines 184-193: the procedure f_l0_b0 of the expected listing.
FB_f_l0_b0 ==
  << C("f"),                             \*  33  line 185
     I("nop"),                           \*  34  line 186
     I("nop"),                           \*  35  line 187
     I("nop"),                           \*  36  line 188
     N("push", 0),                       \*  37  line 189
     C("f"),                             \*  38  line 190
     I("return"),                        \*  39  line 191
     N("push", 1),                       \*  40  line 192
     I("return") >>                      \*  41  line 193

\* fib.rs lines 194-214: the procedure f_l0_b1 of the expected listing.
FB_f_l0_b1 ==
  << C("f_l0_b1_l1_b0"),                 \*  42  line 195
     N("push", -1),                      \*  43  line 196
     I("add"),                           \*  44  line 197
     I("skiz"),                          \*  45  line 198
     I("return"),                        \*  46  line 199
     N("push", -8),                      \*  47  line 200
     I("nop"),                           \*  48  line 201
     I("nop"),                           \*  49  line 202
     N("push", 1),                       \*  50  line 203
     I("nop"),                           \*  51  line 204
     N("push", 0),                       \*  52  line 205
     I("nop"),                           \*  53  line 206
     C("f_l0_b1_l1_b1"),                 \*  54  line 207
     N("push", -1),                      \*  55  line 208
     I("add"),                           \*  56  line 209
     I("skiz"),                          \*  57  line 210
     I("return"),                        \*  58  line 211
     I("recurse"),                       \*  59  line 212
     N("push", 1),                       \*  60  line 213
     I("return") >>                      \*  61  line 214

\* fib.rs lines 215-225: the procedure f_l0_b1_l1_b0 of the expected listing.
FB_f_l0_b1_l1_b0 ==
  << N("push", -1),                      \*  62  line 216
     I("add"),                           \*  63  line 217
     N("push", 7),                       \*  64  line 218
     I("nop"),                           \*  65  line 219
     N("push", 1),                       \*  66  line 220
     I("nop"),                           \*  67  line 221
     N("push", 0),                       \*  68  line 222
     I("nop"),                           \*  69  line 223
     N("push", 1),                       \*  70  line 224
     I("return") >>                      \*  71  line 225

\* fib.rs lines 226-249: the procedure f_l0_b1_l1_b1 of the expected listing.
FB_f_l0_b1_l1_b1 ==
  << I("add"),                           \*  72  line 227
     I("nop"),                           \*  73  line 228
     I("add"),                           \*  74  line 229
     I("nop"),                           \*  75  line 230
     I("add"),                           \*  76  line 231
     I("nop"),                           \*  77  line 232
     I("add"),                           \*  78  line 233
     I("nop"),                           \*  79  line 234
     I("add"),                           \*  80  line 235
     I("nop"),                           \*  81  line 236
     I("add"),                           \*  82  line 237
     I("nop"),                           \*  83  line 238
     I("add"),                           \*  84  line 239
     I("nop"),                           \*  85  line 240
     I("add"),                           \*  86  line 241
     I("nop"),                           \*  87  line 242
     N("push", -8),                      \*  88  line 243
     I("add"),                           \*  89  line 244
     I("nop"),                           \*  90  line 245
     I("nop"),                           \*  91  line 246
     I("nop"),                           \*  92  line 247
     N("push", 1),                       \*  93  line 248
     I("return") >>                      \*  94  line 249

\* fib.rs lines 250-260: the procedure f_l0_b2 of the expected listing.
FB_f_l0_b2 ==
  << I("nop"),                           \*  95  line 251
     I("nop"),                           \*  96  line 252
     C("f_l0_b2_l1_b0"),                 \*  97  line 253
     N("push", -1),                      \*  98  line 254
     I("add"),                           \*  99  line 255
     I("skiz"),                          \* 100  line 256
     I("return"),                        \* 101  line 257
     I("recurse"),                       \* 102  line 258
     N("push", 1),                       \* 103  line 259
     I("return") >>                      \* 104  line 260

\* fib.rs lines 261-277: the procedure f_l0_b2_l1_b0 of the expected listing.
FB_f_l0_b2_l1_b0 ==
  << N("push", 1),                       \* 105  line 262
     N("swap", 1),                       \* 106  line 263
     I("skiz"),                          \* 107  line 264
     I("return"),                        \* 108  line 265
     I("pop"),                           \* 109  line 266
     I("nop"),                           \* 110  line 267
     I("add"),                           \* 111  line 268
     I("nop"),                           \* 112  line 269
     I("nop"),                           \* 113  line 270
     N("push", -1),                      \* 114  line 271
     I("add"),                           \* 115  line 272
     I("nop"),                           \* 116  line 273
     N("push", 0),                       \* 117  line 274
     I("nop"),                           \* 118  line 275
     N("push", 1),                       \* 119  line 276
     I("return") >>                      \* 120  line 277

\* fib.rs lines 146-277: the expected listing, procedure by procedure in
\* the order of the text (the trampoline carries no label).
FibProcs ==
  << [l |-> "", code |-> FB_entry],
     [l |-> "c2zk_stdlib_pub_input", code |-> FB_c2zk_stdlib_pub_input],
     [l |-> "c2zk_stdlib_pub_output", code |-> FB_c2zk_stdlib_pub_output],
     [l |-> "f", code |-> FB_f_1],
     [l |-> "f", code |-> FB_f_2],
     [l |-> "f", code |-> FB_f_3],
     [l |-> "f", code |-> FB_f_4],
     [l |-> "f_l0_b0", code |-> FB_f_l0_b0],
     [l |-> "f_l0_b1", code |-> FB_f_l0_b1],
     [l |-> "f_l0_b1_l1_b0", code |-> FB_f_l0_b1_l1_b0],
     [l |-> "f_l0_b1_l1_b1", code |-> FB_f_l0_b1_l1_b1],
     [l |-> "f_l0_b2", code |-> FB_f_l0_b2],
     [l |-> "f_l0_b2_l1_b0", code |-> FB_f_l0_b2_l1_b0] >>

\* add.rs lines 70-71: the entry trampoline of the expected listing.
AD_entry ==
  << C("__main"),                        \*   1  line 70
     I("halt") >>                        \*   2  line 71

\* add.rs lines 72-74: the procedure c2zk_stdlib_pub_input of the expected listing.
AD_c2zk_stdlib_pub_input ==
  << I("read_io"),                       \*   3  line 73
     I("return") >>                      \*   4  line 74

\* add.rs lines 75-102: the procedure c2zk_stdlib_pub_output of the expected listing.
AD_c2zk_stdlib_pub_output ==
  << N("push", -1),                      \*   5  line 76
     C("globals_get"),                   \*   6  line 77
     N("dup", 0),                        \*   7  line 78
     N("swap", 2),                       \*   8  line 79
     I("write_mem"),                     \*   9  line 80
     I("pop"),                           \*  10  line 81
     I("pop"),                           \*  11  line 82
     N("push", -4),                      \*  12  line 83
     I("add"),                           \*  13  line 84
     N("push", -1),                      \*  14  line 85
     C("globals_set"),                   \*  15  line 86
     N("push", -1),                      \*  16  line 87
     C("globals_get"),                   \*  17  line 88
     N("push", 4),                       \*  18  line 89
     I("add"),                           \*  19  line 90
     N("push", 0),                       \*  20  line 91
     I("read_mem"),                      \*  21  line 92
     N("swap", 1),                       \*  22  line 93
     I("pop"),                           \*  23  line 94
     I("write_io"),                      \*  24  line 95
     N("push", -1),                      \*  25  line 96
     C("globals_get"),                   \*  26  line 97
     N("push", 4),                       \*  27  line 98
     I("add"),                           \*  28  line 99
     N("push", -1),                      \*  29  line 100
     C("globals_set"),                   \*  30  line 101
     I("return") >>                      \*  31  line 102

\* add.rs lines 103-105: the procedure c2zk_stdlib_secret_input of the expected listing.
AD_c2zk_stdlib_secret_input ==
  << I("divine"),                        \*  32  line 104
     I("return") >>                      \*  33  line 105

\* add.rs lines 106-109: the procedure __main of the expected listing.
AD___main ==
  << C("init_mem_for_locals"),           \*  34  line 107
     C("main_add"),                      \*  35  line 108
     I("return") >>                      \*  36  line 109

\* add.rs lines 110-152: the procedure add of the expected listing.
AD_add ==
  << N("push", -1),                      \*  37  line 111
     C("globals_get"),                   \*  38  line 112
     N("dup", 0),                        \*  39  line 113
     N("swap", 2),                       \*  40  line 114
     I("write_mem"),                     \*  41  line 115
     I("pop"),                           \*  42  line 116
     I("pop"),                           \*  43  line 117
     N("push", -4),                      \*  44  line 118
     I("add"),                           \*  45  line 119
     N("dup", 0),                        \*  46  line 120
     N("swap", 2),                       \*  47  line 121
     I("write_mem"),                     \*  48  line 122
     I("pop"),                           \*  49  line 123
     I("pop"),                           \*  50  line 124
     N("push", -4),                      \*  51  line 125
     I("add"),                           \*  52  line 126
     N("push", -1),                      \*  53  line 127
     C("globals_set"),                   \*  54  line 128
     N("push", -1),                      \*  55  line 129
     C("globals_get"),                   \*  56  line 130
     N("push", 4),                       \*  57  line 131
     I("add"),                           \*  58  line 132
     N("push", 0),                       \*  59  line 133
     I("read_mem"),                      \*  60  line 134
     N("swap", 1),                       \*  61  line 135
     I("pop"),                           \*  62  line 136
     N("push", -1),                      \*  63  line 137
     C("globals_get"),                   \*  64  line 138
     N("push", 8),                       \*  65  line 139
     I("add"),                           \*  66  line 140
     N("push", 0),                       \*  67  line 141
     I("read_mem"),                      \*  68  line 142
     N("swap", 1),                       \*  69  line 143
     I("pop"),                           \*  70  line 144
     I("add"),                           \*  71  line 145
     N("push", -1),                      \*  72  line 146
     C("globals_get"),                   \*  73  line 147
     N("push", 8),                       \*  74  line 148
     I("add"),                           \*  75  line 149
     N("push", -1),                      \*  76  line 150
     C("globals_set"),                   \*  77  line 151
     I("return") >>                      \*  78  line 152

\* add.rs lines 153-160: the procedure main_add of the expected listing.
AD_main_add ==
  << C("pub_input"),                     \*  79  line 154
     C("pub_input"),                     \*  80  line 155
     C("add"),                           \*  81  line 156
     C("secret_input"),                  \*  82  line 157
     C("add"),                           \*  83  line 158
     C("pub_output"),                    \*  84  line 159
     I("return") >>                      \*  85  line 160

\* add.rs lines 161-163: the procedure pub_input of the expected listing.
AD_pub_input ==
  << C("c2zk_stdlib_pub_input"),         \*  86  line 162
     I("return") >>                      \*  87  line 163

\* add.rs lines 164-191: the procedure pub_output of the expected listing.
AD_pub_output ==
  << N("push", -1),                      \*  88  line 165
     C("globals_get"),                   \*  89  line 166
     N("dup", 0),                        \*  90  line 167
     N("swap", 2),                       \*  91  line 168
     I("write_mem"),                     \*  92  line 169
     I("pop"),                           \*  93  line 170
     I("pop"),                           \*  94  line 171
     N("push", -4),                      \*  95  line 172
     I("add"),                           \*  96  line 173
     N("push", -1),                      \*  97  line 174
     C("globals_set"),                   \*  98  line 175
     N("push", -1),                      \*  99  line 176
     C("globals_get"),                   \* 100  line 177
     N("push", 4),                       \* 101  line 178
     I("add"),                           \* 102  line 179
     N("push", 0),                       \* 103  line 180
     I("read_mem"),                      \* 104  line 181
     N("swap", 1),                       \* 105  line 182
     I("pop"),                           \* 106  line 183
     C("c2zk_stdlib_pub_output"),        \* 107  line 184
     N("push", -1),                      \* 108  line 185
     C("globals_get"),                   \* 109  line 186
     N("push", 4),                       \* 110  line 187
     I("add"),                           \* 111  line 188
     N("push", -1),                      \* 112  line 189
     C("globals_set"),                   \* 113  line 190
     I("return") >>                      \* 114  line 191

\* add.rs lines 192-194: the procedure secret_input of the expected listing.
AD_secret_input ==
  << C("c2zk_stdlib_secret_input"),      \* 115  line 193
     I("return") >>                      \* 116  line 194

\* add.rs lines 195-199: the procedure init_mem_for_locals of the expected listing.
AD_init_mem_for_locals ==
  << N("push", 2147483635),              \* 117  line 196
     N("push", -1),                      \* 118  line 197
     C("globals_set"),                   \* 119  line 198
     I("return") >>                      \* 120  line 199

\* add.rs lines 200-209: the procedure globals_get of the expected listing.
AD_globals_get ==
  << N("push", 4),                       \* 121  line 201
     I("mul"),                           \* 122  line 202
     N("push", 2147483647),              \* 123  line 203
     I("add"),                           \* 124  line 204
     N("push", 0),                       \* 125  line 205
     I("read_mem"),                      \* 126  line 206
     N("swap", 1),                       \* 127  line 207
     I("pop"),                           \* 128  line 208
     I("return") >>                      \* 129  line 209

\* add.rs lines 210-219: the procedure globals_set of the expected listing.
AD_globals_set ==
  << N("push", 4),                       \* 130  line 211
     I("mul"),                           \* 131  line 212
     N("push", 2147483647),              \* 132  line 213
     I("add"),                           \* 133  line 214
     N("swap", 1),                       \* 134  line 215
     I("write_mem"),                     \* 135  line 216
     I("pop"),                           \* 136  line 217
     I("pop"),                           \* 137  line 218
     I("return") >>                      \* 138  line 219

\* add.rs lines 70-219: the expected listing, procedure by procedure in
\* the order of the text (the trampoline carries no label).
AddProcs ==
  << [l |-> "", code |-> AD_entry],
     [l |-> "c2zk_stdlib_pub_input", code |-> AD_c2zk_stdlib_pub_input],
     [l |-> "c2zk_stdlib_pub_output", code |-> AD_c2zk_stdlib_pub_output],
     [l |-> "c2zk_stdlib_secret_input", code |-> AD_c2zk_stdlib_secret_input],
     [l |-> "__main", code |-> AD___main],
     [l |-> "add", code |-> AD_add],
     [l |-> "main_add", code |-> AD_main_add],
     [l |-> "pub_input", code |-> AD_pub_input],
     [l |-> "pub_output", code |-> AD_pub_output],
     [l |-> "secret_input", code |-> AD_secret_input],
     [l |-> "init_mem_for_locals", code |-> AD_init_mem_for_locals],
     [l |-> "globals_get", code |-> AD_globals_get],
     [l |-> "globals_set", code |-> AD_globals_set] >>

\* ------------------------------------------------------------------------
\* Bounds
\* ------------------------------------------------------------------------

\* The largest value the signal register holds when a propagation check runs.
MaxSig == 3
\* The longest operand stack a fib procedure is entered with.
MaxStack == 3
\* The most instructions one run executes.
MaxSteps == 400

\* ------------------------------------------------------------------------
\* Triton VM state
\* ------------------------------------------------------------------------

VARIABLES
  entry,    \* which program runs, and from where
  ip,       \* index of the next instruction of the program
  st,       \* operand stack, top first
  js,       \* jump stack, top first: [ret |-> return address, dest |-> callee]
  mem,      \* RAM: address -> value (absent = 0)
  out,      \* public output written so far
  status,   \* "run", "halt" or "fail"
  hist      \* the machine states the run has left, oldest first

tvars == <<entry, ip, st, js, mem, out, status, hist>>

\* ------------------------------------------------------------------------
\* State of the other two back ends (declared here, used further down)
\* ------------------------------------------------------------------------

VARIABLES
  module,   \* Miden: the Module being compiled
  seed,     \* Miden: the iteration order of this run's func_names HashMap
  run,      \* Miden: 1 for the first compile_module call, 2 for the second
  fi,       \* Miden: number of functions the for loop has taken
  sink,     \* Miden: the InstBuffer under construction
  result,   \* Miden: what compile_module returned ("none" while it runs)
  prev      \* Miden: what the first call returned, once the second has begun

mvars == <<module, seed, run, fi, sink, result, prev>>

VARIABLES
  vfun,     \* Valida: the function being lowered: [p |-> parameters, l |-> locals]
  vdepth,   \* Valida: wasm operand-stack depth (declared locals included)
  vcells,   \* Valida: frame memory, fp-relative offset -> value
  vref,     \* Valida: the value each local holds by wasm's semantics
  vtop,     \* Valida: the values on the wasm operand stack, top first
  vlast     \* Valida: the last instruction executed

VARIABLES
  vcall,    \* Valida: the program of the call run
  pc,       \* Valida: index of the next instruction of the lowered program
  fp,       \* Valida: the frame pointer
  ram,      \* Valida: memory, address -> value (absent = 0)
  frames    \* Valida: the calls made so far, oldest first

cvars == <<vcall, pc, fp, ram, frames>>

vvars == <<vfun, vdepth, vcells, vref, vtop, vlast, cvars>>

VARIABLES
  wop,      \* wasm dialect: the br / br_if Operation handed to the compiler
  wnest,    \* wasm dialect: the number of Block/Loop constructs enclosing it
  wstage,   \* wasm dialect: how far the operation has got
  wcode     \* wasm dialect: the code emitted for the operation

VARIABLES
  func_symbols,  \* ModuleOp: the function symbols vector attribute
  mod_body,      \* ModuleOp: the FuncOps of the module's block, by symbol name
  func_indices   \* ModuleOp: what append_function returned, call by call

ovars == <<func_symbols, mod_body, func_indices>>

wvars == <<wop, wnest, wstage, wcode, ovars>>

vars == <<tvars, mvars, vvars, wvars>>

\* ------------------------------------------------------------------------
\* Triton VM: programs
\* ------------------------------------------------------------------------

\* The runs considered: each expected listing from its trampoline; the nested-block
\* listing with the inner block procedure replaced by a callee of any outcome; the
\* fib listing from the calls of its two loop-holding blocks (the listing defines
\* the label f four times, so "call f" of its trampoline names no procedure).
Entries == {"nested", "nested_any", "locals", "fib_b1", "fib_b2"}

\* ------------------------------------------------------------------------
\* Outlining and lowering of a function body, as the nested-block listing has it
\* ------------------------------------------------------------------------

\* Address of global i in the nested-block listing (globals_set, globals_get).
GlobalsBase == 2147482623
GlobalAddr(i) == GlobalsBase + (-4) * i
\* The signal register is global 1 (main_l0_b0_l1_b0 and next_br_propagation).
SignalIdx == 1

\* A node of a wasm function body: its kind, its immediate (constant or relative
\* depth), its callee, and the body it owns (Block/Loop).
W(k, v, l, body) == [k |-> k, v |-> v, l |-> l, body |-> body]
WConst(v) == W("const", v, "", <<>>)
WCall(l) == W("call", 0, l, <<>>)
WBr(d) == W("br", d, "", <<>>)
WReturn == W("return", 0, "", <<>>)
WBlock(body) == W("block", 0, "", body)

\* The body of $main in test_nested_block_br (wat lines 21-37).
NestedMain ==
  << WBlock(<< WConst(3), WCall("c2zk_stdlib_pub_output"),
               WBlock(<< WConst(8), WCall("c2zk_stdlib_pub_output"), WBr(1),
                         WConst(11), WCall("c2zk_stdlib_pub_output") >>),
               WConst(9), WCall("c2zk_stdlib_pub_output") >>),
     WConst(7), WCall("c2zk_stdlib_pub_output"), WReturn >>

IsConstruct(n) == n.k \in {"block", "loop"}

\* The qualified block path: the name of the enclosing procedure, the nesting
\* level and the index among the constructs of the same body.
PathName(name, level, sib) == name \o "_l" \o ToString(level) \o "_b" \o ToString(sib)
SiblingIdx(body, i) == Cardinality({ j \in 1 .. (i - 1) : IsConstruct(body[j]) })

RECURSIVE CountConstructs(_)
CountConstructs(body) ==
  IF body = <<>> THEN 0
  ELSE (IF IsConstruct(Head(body)) THEN 1 + CountConstructs(Head(body).body) ELSE 0)
       + CountConstructs(Tail(body))

\* Some branch under a construct (r constructs below it) resumes above it.
RECURSIVE Escapes(_, _)
Escapes(body, r) ==
  \E i \in DOMAIN body :
    \/ body[i].k \in {"br", "br_if"} /\ body[i].v > r
    \/ IsConstruct(body[i]) /\ Escapes(body[i].body, r + 1)

\* The lines of one node with br d storing d + 2 in the signal register.
LinesOf_StoresTwoMore(name, level, body, i) ==
  LET n == body[i]
  IN  CASE n.k = "const" -> <<N("push", n.v)>>
        [] n.k = "call" -> <<C(n.l)>>
        [] n.k = "br" -> <<N("push", n.v + 2), N("push", SignalIdx), C("globals_set"), I("return")>>
        [] n.k = "return" -> <<I("return")>>
        [] IsConstruct(n) ->
             <<C(PathName(name, level, SiblingIdx(body, i)))>> \o
             (IF Escapes(n.body, 0)
                THEN <<C("next_br_propagation"), I("skiz"), I("return")>>
                ELSE <<>>)

\* The lines the listing holds for one node: a construct is the call of its
\* procedure (with the propagation check where a branch escapes it), every other
\* instruction its own lowering.
LinesOf(name, level, body, i) ==
  LET n == body[i]
  IN  CASE n.k = "const" -> <<N("push", n.v)>>
        [] n.k = "call" -> <<C(n.l)>>
        [] n.k = "br" -> <<N("push", n.v + 1), N("push", SignalIdx), C("globals_set"), I("return")>>
        [] n.k = "return" -> <<I("return")>>
        [] IsConstruct(n) ->
             <<C(PathName(name, level, SiblingIdx(body, i)))>> \o
             (IF Escapes(n.body, 0)
                THEN <<C("next_br_propagation"), I("skiz"), I("return")>>
                ELSE <<>>)

\* The lines of a body closed by push 1; return, the end of the block procedures
\* of the fib listing.
RECURSIVE LinesFrom_PushesFlag(_, _, _, _)
LinesFrom_PushesFlag(name, level, body, i) ==
  IF i > Len(body) THEN <<N("push", 1), I("return")>>
  ELSE LinesOf(name, level, body, i) \o LinesFrom_PushesFlag(name, level, body, i + 1)

\* The lines of a body from node i on, closed by the return of its End.
RECURSIVE LinesFrom(_, _, _, _)
LinesFrom(name, level, body, i) ==
  IF i > Len(body) THEN <<I("return")>>
  ELSE LinesOf(name, level, body, i) \o LinesFrom(name, level, body, i + 1)

\* One procedure per construct under body, named by its path, holding its body.
RECURSIVE ConstructProcs(_, _, _)
ConstructProcs(name, level, body) ==
  UNION { LET p == PathName(name, level, SiblingIdx(body, i))
          IN  {[l |-> p, code |-> LinesFrom(p, level + 1, body[i].body, 1)]}
              \cup ConstructProcs(p, level + 1, body[i].body)
          : i \in { j \in DOMAIN body : IsConstruct(body[j]) } }

\* The procedure of the function itself: the frame prologue, then its body.
FunctionProc(name, body) ==
  [l |-> name, code |-> <<C("init_mem_for_locals")>> \o LinesFrom(name, 0, body, 1)]

\* The procedures of the runtime in the nested-block listing.
RuntimeLabels ==
  {"", "globals_set", "globals_get", "c2zk_stdlib_pub_output",
   "init_mem_for_locals", "next_br_propagation"}

RECURSIVE SeqOf(_)
SeqOf(S) == IF S = {} THEN <<>> ELSE LET x == CHOOSE y \in S : TRUE IN <<x>> \o SeqOf(S \ {x})

\* The listing of a module whose one function main has the given body: the
\* trampoline and the runtime of the nested-block listing around the procedures
\* outlined from the body.
Compiled(body) ==
  SelectSeq(NestedBlockBrProcs, LAMBDA p : p.l \in RuntimeLabels) \o
  SeqOf({FunctionProc("main", body)} \cup ConstructProcs("main", 0, body))

\* (func $main (block) (i64.const 7) (call $c2zk_stdlib_pub_output) (return)):
\* a Block with an empty body in front of the tail of $main.
EmptyMain ==
  << WBlock(<<>>), WConst(7), WCall("c2zk_stdlib_pub_output"), WReturn >>

\* Two blocks in a row, each holding a block that ends in br 1: the branch of the
\* first is taken before the second is entered.
ResidueMain ==
  << WBlock(<< WBlock(<< WConst(8), WCall("c2zk_stdlib_pub_output"), WBr(1) >>),
               WConst(9), WCall("c2zk_stdlib_pub_output") >>),
     WBlock(<< WBlock(<< WConst(5), WCall("c2zk_stdlib_pub_output"), WBr(1) >>),
               WConst(6), WCall("c2zk_stdlib_pub_output") >>),
     WConst(7), WCall("c2zk_stdlib_pub_output"), WReturn >>

\* The entries that run a listing obtained by outlining.
OutlinedEntries == {"empty", "residue"}
OutlinedBody(e) == IF e = "empty" THEN EmptyMain ELSE ResidueMain

\* The procedures ps with the code of label l replaced.
ProcsWith(ps, l, code) ==
  [k \in DOMAIN ps |-> IF ps[k].l = l THEN [l |-> l, code |-> code] ELSE ps[k]]

\* The entries that run the nested-block listing with a check added to main, and
\* with the check of main_l0_b0 taken out.
CheckVariants == {"nested_extra", "extra_any", "nested_nocheck"}

Procs(e) ==
  CASE e \in {"nested", "nested_any"} -> NestedBlockBrProcs
    [] e = "locals" -> LocalsProcs
    [] e \in {"fib_b0", "fib_b1", "fib_b2"} -> FibProcs
    [] e \in {"nested_extra", "extra_any"} ->
         ProcsWith(NestedBlockBrProcs, "main", NB_main_ExtraCheck)
    [] e = "nested_nocheck" ->
         ProcsWith(NestedBlockBrProcs, "main_l0_b0", NB_main_l0_b0_NoCheck)
    [] e = "add" -> AddProcs
    [] e \in OutlinedEntries -> Compiled(OutlinedBody(e))

RECURSIVE Flatten(_)
Flatten(ps) == IF ps = <<>> THEN <<>> ELSE Head(ps).code \o Flatten(Tail(ps))

RECURSIVE LenBefore(_, _)
\* Number of instructions in front of procedure k of ps.
LenBefore(ps, k) == IF k = 1 THEN 0 ELSE LenBefore(ps, k - 1) + Len(ps[k - 1].code)

NestedBlockBrProg == Flatten(NestedBlockBrProcs)
LocalsProg == Flatten(LocalsProcs)
FibProg == Flatten(FibProcs)

Prog(e) ==
  CASE e \in {"nested", "nested_any"} -> NestedBlockBrProg
    [] e = "locals" -> LocalsProg
    [] e \in {"fib_b0", "fib_b1", "fib_b2"} -> FibProg
    [] e \in CheckVariants -> Flatten(Procs(e))
    [] e = "add" -> Flatten(AddProcs)
    [] e \in OutlinedEntries -> Flatten(Procs(e))

\* The addresses a label names in the listing of e (one, unless the listing
\* defines the label several times).
LabelAddrs(e, l) ==
  { LenBefore(Procs(e), k) + 1 : k \in { j \in DOMAIN Procs(e) : Procs(e)[j].l = l } }

\* Address of the instruction k lines below label l (k = 0: its first instruction).
At(e, l, k) == (CHOOSE a \in LabelAddrs(e, l) : TRUE) + k

\* The instructions of the body of label l.
Body(e, l) ==
  LET k == CHOOSE j \in DOMAIN Procs(e) : Procs(e)[j].l = l
  IN  (LenBefore(Procs(e), k) + 1) .. (LenBefore(Procs(e), k) + Len(Procs(e)[k].code))

\* Two instruction sets occur: the nested-block listing is written for the VM whose
\* read_mem pushes the value read and whose write_mem pops the value written; the
\* locals and fib listings for the VM whose read_mem overwrites the top of the
\* stack and whose write_mem leaves the stack alone.
Isa(e) == IF e \in {"nested", "nested_any"} \cup CheckVariants \cup OutlinedEntries THEN "push_pop" ELSE "in_place"

NoMem == [a \in {} |-> 0]
Read(m, a) == IF a \in DOMAIN m THEN m[a] ELSE 0
Write(m, a, v) == [x \in DOMAIN m \cup {a} |-> IF x = a THEN v ELSE m[x]]
Drop(s, k) == SubSeq(s, k + 1, Len(s))

Cur == Prog(entry)[ip]

\* Operand-stack elements the instruction reads.
StackNeed(e, ins) ==
  CASE ins.op \in {"push", "call", "return", "recurse", "nop", "halt"} -> 0
    [] ins.op \in {"pop", "skiz", "write_io"} -> 1
    [] ins.op \in {"add", "mul", "eq", "write_mem"} -> 2
    [] ins.op \in {"dup", "swap"} -> ins.n + 1
    [] ins.op = "read_mem" -> IF Isa(e) = "push_pop" THEN 1 ELSE 2
    [] OTHER -> 0

Executable(e, ins) ==
  /\ Len(st) >= StackNeed(e, ins)
  /\ ins.op \in {"return", "recurse"} => js # <<>>
  /\ ins.op = "call" => LabelAddrs(e, ins.l) # {}
  /\ ins.op \in {"read_io", "divine"} => e \in {"add", "fib_b0"}

Rec == [ip |-> ip, st |-> st, js |-> js, mem |-> mem, out |-> out]

\* The run so far, the present state last.
T == Append(hist, Rec)

Running(op) ==
  /\ status = "run"
  /\ Len(hist) < MaxSteps
  /\ ip \in DOMAIN Prog(entry)
  /\ Cur.op = op
  /\ Executable(entry, Cur)
\* ------------------------------------------------------------------------
\* Triton VM instructions
\* ------------------------------------------------------------------------

\* One instruction executed: the machine state it leaves.
Step(ip2, st2, js2, mem2, out2) ==
  /\ ip' = ip2
  /\ st' = st2
  /\ js' = js2
  /\ mem' = mem2
  /\ out' = out2
  /\ hist' = Append(hist, Rec)
  /\ UNCHANGED <<entry, status, mvars, vvars, wvars>>

Push == Running("push") /\ Step(ip + 1, <<Cur.n>> \o st, js, mem, out)

Pop == Running("pop") /\ Step(ip + 1, Tail(st), js, mem, out)

Nop == Running("nop") /\ Step(ip + 1, st, js, mem, out)

\* Field elements are kept as signed integers: every value of these runs stays far
\* inside (-p, p) for the VM's prime p, where x = 0 and x = 0 (mod p) agree.
Add == Running("add") /\ Step(ip + 1, <<st[1] + st[2]>> \o Drop(st, 2), js, mem, out)

Mul == Running("mul") /\ Step(ip + 1, <<st[1] * st[2]>> \o Drop(st, 2), js, mem, out)

Eq ==
  /\ Running("eq")
  /\ Step(ip + 1, <<IF st[1] = st[2] THEN 1 ELSE 0>> \o Drop(st, 2), js, mem, out)

Dup == Running("dup") /\ Step(ip + 1, <<st[Cur.n + 1]>> \o st, js, mem, out)

Swap ==
  /\ Running("swap")
  /\ Step(ip + 1,
          [st EXCEPT ![1] = st[Cur.n + 1], ![Cur.n + 1] = st[1]],
          js, mem, out)

\* skiz pops the top of the stack and skips the next instruction when it is 0.
Skiz ==
  /\ Running("skiz")
  /\ Step(IF st[1] = 0 THEN ip + 2 ELSE ip + 1, Tail(st), js, mem, out)

\* The callee of the abstracted run: the inner block procedure of the nested-block
\* listing (the inner block of the second block in the run of two blocks in a
\* row), taken as a procedure that returns with any value in the signal register.
Abstracted(e, ins) ==
  \/ e \in {"nested_any", "extra_any"} /\ ins.l = "main_l0_b0_l1_b0"
  \/ e = "residue" /\ ins.l = "main_l0_b1_l1_b0"

\* The procedures a call can enter.  The fib listing prints every function under
\* the label f; the run of its first block enters the function the wat names at
\* that call (fib.rs lines 33 and 39: pub_input, then pub_output).
Callees(e, at) ==
  IF e = "fib_b0" /\ Prog(e)[at].l = "f"
    THEN IF at = At(e, "f_l0_b0", 0)
           THEN {LenBefore(FibProcs, 6) + 1}
           ELSE {LenBefore(FibProcs, 7) + 1}
    ELSE LabelAddrs(e, Prog(e)[at].l)

Call ==
  /\ Running("call")
  /\ ~Abstracted(entry, Cur)
  /\ \E a \in Callees(entry, ip) :
       Step(a, st, <<[ret |-> ip + 1, dest |-> a]>> \o js, mem, out)

Return == Running("return") /\ Step(js[1].ret, st, Tail(js), mem, out)

\* recurse jumps to the first instruction of the procedure that is running.
Recurse == Running("recurse") /\ Step(js[1].dest, st, js, mem, out)

ReadMem ==
  /\ Running("read_mem")
  /\ IF Isa(entry) = "push_pop"
       THEN Step(ip + 1, <<Read(mem, st[1])>> \o st, js, mem, out)
       ELSE Step(ip + 1, <<Read(mem, st[2])>> \o Tail(st), js, mem, out)

WriteMem ==
  /\ Running("write_mem")
  /\ IF Isa(entry) = "push_pop"
       THEN Step(ip + 1, Tail(st), js, Write(mem, st[2], st[1]), out)
       ELSE Step(ip + 1, st, js, Write(mem, st[2], st[1]), out)

WriteIo == Running("write_io") /\ Step(ip + 1, Tail(st), js, mem, Append(out, st[1]))

\* test_add: let input = vec![11, 7]; let secret_input = vec![3]; the values the
\* public and the secret input hold.
PubInputs == {7, 11}
SecretInputs == {3}

\* Public inputs of the run of the first block of fib: test_fib reads 25; 0 and 1
\* are the inputs on which the br_if of the block falls through and is taken.
FibInputs == {0, 1, 25}

\* read_io pushes the next public input, divine the next secret input.
ReadIo ==
  /\ Running("read_io")
  /\ \E v \in (IF entry = "fib_b0" THEN FibInputs ELSE PubInputs) : Step(ip + 1, <<v>> \o st, js, mem, out)
Divine == Running("divine") /\ \E v \in SecretInputs : Step(ip + 1, <<v>> \o st, js, mem, out)

Halt ==
  /\ Running("halt")
  /\ status' = "halt"
  /\ hist' = Append(hist, Rec)
  /\ UNCHANGED <<entry, ip, st, js, mem, out, mvars, vvars, wvars>>

\* An instruction whose operands are missing stops the machine with an error.
Trap ==
  /\ status = "run"
  /\ Len(hist) < MaxSteps
  /\ ip \in DOMAIN Prog(entry)
  /\ ~Executable(entry, Cur)
  /\ status' = "fail"
  /\ hist' = Append(hist, Rec)
  /\ UNCHANGED <<entry, ip, st, js, mem, out, mvars, vvars, wvars>>

SignalAddr == GlobalAddr(SignalIdx)
Signal(m) == Read(m, SignalAddr)

\* The abstracted callee returns at once, the signal register holding any k.
CallAnyBlock ==
  /\ Running("call")
  /\ Abstracted(entry, Cur)
  /\ \E k \in 0 .. MaxSig : Step(ip + 1, st, js, Write(mem, SignalAddr, k), out)

\* Operand stacks over {0, 1, 2} up to MaxStack long.
RECURSIVE Stacks(_)
Stacks(n) ==
  IF n = 0 THEN {<<>>}
  ELSE Stacks(n - 1) \cup { <<v>> \o s : v \in 0 .. 2, s \in { t \in Stacks(n - 1) : Len(t) = n - 1 } }


\* ------------------------------------------------------------------------
\* Miden back end: Module, Func, Inst
\* ------------------------------------------------------------------------

\* The most instructions a function body holds in front of its closing End.
MaxLen == 2

\* An Inst: its variant and its operand (value, idx or func_idx; 0 when none).
Inst(k, v) == [k |-> k, v |-> v]
NoInst == Inst("", 0)

\* A MidenInst with a label operand (proc.<label>, exec.<label>).
L(op, l) == [op |-> op, n |-> 0, l |-> l]

\* The instructions bodies are drawn from: two variants with an arm in the match
\* of emit_inst, two without.
BodyInsts == {Inst("I32Const", 1), Inst("Return", 0), Inst("LocalGet", 0), Inst("Br", 0)}

RECURSIVE Bodies(_)
Bodies(n) ==
  IF n = 0 THEN {<<>>}
  ELSE Bodies(n - 1) \cup
       { Append(b, i) : b \in { c \in Bodies(n - 1) : Len(c) = n - 1 }, i \in BodyInsts }

\* A Func is its instruction list; the End that closes a wasm body is its last
\* instruction (test_smoke: i32.const 1, return gives push.1, end).
Funcs == { Append(b, Inst("End", 0)) : b \in Bodies(MaxLen) }

\* Module::new: the functions in definition order and the start function's index.
Modules ==
  UNION { { [functions |-> fs, start_func_idx |-> s] :
              fs \in [1 .. n -> Funcs], s \in 0 .. (n - 1) } : n \in {1, 2} }

\* The iteration orders a HashMap over the FuncIndex keys of m can have.
Orders(m) ==
  LET n == Len(m.functions)
  IN  { o \in [1 .. n -> 0 .. (n - 1)] : \A i, j \in 1 .. n : o[i] = o[j] => i = j }

\* Module::func_names: the name of every function, keyed by FuncIndex.
FuncLabels == <<"f1", "f2">>
func_names(m) == [idx \in 0 .. (Len(m.functions) - 1) |-> FuncLabels[idx + 1]]

\* Module::functions_into_iter: (FuncIndex, Func) pairs of the ordered list of
\* functions, in that order.
functions_into_iter(m) ==
  [i \in 1 .. Len(m.functions) |-> [idx |-> i - 1, func |-> m.functions[i]]]

\* c2zk_codegen_shared::func_index_to_label: the name the map holds for the index.
func_index_to_label(idx, names) == names[idx]

\* ------------------------------------------------------------------------
\* Miden back end: emit_inst, compile_function, compile_module
\* ------------------------------------------------------------------------

\* The Inst variants that have an arm in the match of emit_inst.
TableKinds ==
  {"End", "Return", "Dup", "Swap", "Call", "I32Const", "I32Add",
   "SDepth", "While", "MidenEnd"}

EmitOk(snk) == [ok |-> TRUE, sink |-> snk, e |-> NoInst]
\* EmitError::UnsupportedInstruction(ins.clone())
UnsupportedInstruction(ins, snk) == [ok |-> FALSE, sink |-> snk, e |-> ins]

\* emit_inst pushing in front of what the sink holds.
emit_inst_Prepend(ins, snk) ==
  CASE ins.k = "End" -> EmitOk(<<I("end")>> \o snk)
    [] ins.k = "Return" -> EmitOk(snk)
    [] ins.k = "Dup" -> EmitOk(<<N("dup", ins.v)>> \o snk)
    [] ins.k = "Swap" -> EmitOk(<<N("swap", ins.v)>> \o snk)
    [] ins.k = "Call" ->
         EmitOk(<<L("exec", func_index_to_label(ins.v, func_names(module)))>> \o snk)
    [] ins.k = "I32Const" -> EmitOk(<<N("push", ins.v)>> \o snk)
    [] ins.k = "I32Add" -> EmitOk(<<I("add")>> \o snk)
    [] ins.k = "SDepth" -> EmitOk(<<I("sdepth")>> \o snk)
    [] ins.k = "While" -> EmitOk(<<I("while.true")>> \o snk)
    [] ins.k = "MidenEnd" -> EmitOk(<<I("end")>> \o snk)
    [] OTHER -> UnsupportedInstruction(ins, snk)

emit_inst(ins, snk) ==
  CASE ins.k = "End" -> EmitOk(Append(snk, I("end")))
    [] ins.k = "Return" -> EmitOk(snk)
    [] ins.k = "Dup" -> EmitOk(Append(snk, N("dup", ins.v)))
    [] ins.k = "Swap" -> EmitOk(Append(snk, N("swap", ins.v)))
    [] ins.k = "Call" ->
         EmitOk(Append(snk, L("exec", func_index_to_label(ins.v, func_names(module)))))
    [] ins.k = "I32Const" -> EmitOk(Append(snk, N("push", ins.v)))
    [] ins.k = "I32Add" -> EmitOk(Append(snk, I("add")))
    [] ins.k = "SDepth" -> EmitOk(Append(snk, I("sdepth")))
    [] ins.k = "While" -> EmitOk(Append(snk, I("while.true")))
    [] ins.k = "MidenEnd" -> EmitOk(Append(snk, I("end")))
    [] OTHER -> UnsupportedInstruction(ins, snk)

\* compile_function that drops the result of emit_inst and goes on.
RECURSIVE EmitIgnoring(_, _, _)
EmitIgnoring(func, k, snk) ==
  IF k > Len(func) THEN EmitOk(snk)
  ELSE EmitIgnoring(func, k + 1, emit_inst(func[k], snk).sink)

compile_function_IgnoresErr(func, snk) == EmitIgnoring(func, 1, snk)

\* The for loop of compile_function from instruction k on: the first Err returns.
RECURSIVE EmitFrom(_, _, _)
EmitFrom(func, k, snk) ==
  IF k > Len(func) THEN EmitOk(snk)
  ELSE LET res == emit_inst(func[k], snk)
       IN  IF ~res.ok THEN res ELSE EmitFrom(func, k + 1, res.sink)

compile_function(func, snk) == EmitFrom(func, 1, snk)

\* The label of the i-th entry of the name map in this run's iteration order.
ProcLabelByIteration(idx) == func_names(module)[seed[run][idx + 1]]

\* builder.proc(func_index_to_label(idx, &func_names)): the label is looked up by key.
ProcLabel(idx) == func_index_to_label(idx, func_names(module))

\* The trampoline calling the first function, whichever the start function is.
TrampolineOfFirst ==
  <<I("begin"), L("exec", func_index_to_label(0, func_names(module))), I("end")>>

\* begin, exec.<start>, end
Trampoline ==
  <<I("begin"),
    L("exec", func_index_to_label(module.start_func_idx, func_names(module))),
    I("end")>>

NoResult == [tag |-> "none", e |-> NoInst, buf |-> <<>>]

MidenIdle ==
  /\ module = [functions |-> <<>>, start_func_idx |-> 0]
  /\ seed = <<>>
  /\ run = 0
  /\ fi = 0
  /\ sink = <<>>
  /\ result = NoResult
  /\ prev = NoResult

Compiling ==
  /\ run \in {1, 2}
  /\ result = NoResult

\* One turn of the for loop of compile_module: the proc header, then the body; an
\* Err of compile_function is what compile_module returns (the ? operator), the
\* buffer is dropped.
CompileFunction ==
  /\ Compiling
  /\ fi < Len(module.functions)
  /\ LET it == functions_into_iter(module)[fi + 1]
         res == compile_function(it.func, Append(sink, L("proc", ProcLabel(it.idx))))
     IN  /\ sink' = res.sink
         /\ IF res.ok
              THEN fi' = fi + 1 /\ UNCHANGED result
              ELSE result' = [tag |-> "Err", e |-> res.e, buf |-> <<>>] /\ UNCHANGED fi
  /\ UNCHANGED <<module, seed, run, prev, tvars, vvars, wvars>>

\* After the loop: the trampoline is pushed and the buffer returned.
CompileModuleEnd ==
  /\ Compiling
  /\ fi = Len(module.functions)
  /\ sink' = sink \o Trampoline
  /\ result' = [tag |-> "Ok", e |-> NoInst, buf |-> sink']
  /\ UNCHANGED <<module, seed, run, fi, prev, tvars, vvars, wvars>>

\* compile_module is called again on an equal Module.
Recompile ==
  /\ run = 1
  /\ result # NoResult
  /\ prev' = result
  /\ run' = 2
  /\ fi' = 0
  /\ sink' = <<>>
  /\ result' = NoResult
  /\ UNCHANGED <<module, seed, tvars, vvars, wvars>>

\* ------------------------------------------------------------------------
\* Valida lowering: the frame slots of locals, parameters and operands
\* ------------------------------------------------------------------------

\* The most values the wasm operand stack holds above the declared locals.
MaxOperands == 2

\* The functions lowered: p parameters, l declared locals.
ValidaFuncs == { [p |-> p, l |-> l] : p \in {0, 1}, l \in {0, 1} }
\* The values the program pushes, and the values arguments arrive with.
ConstValues == {7, 9}
ArgValues == {3}

\* fp_from_wasm_stack: the fp-relative offset of the operand at a stack depth
\* (depth 2 is -8(fp), depth 3 is -12(fp)).
fp_from_wasm_stack(d) == (-4) * d

\* WasmTrackStackDepthPass::new_reserve_space_for_locals: the depth before the
\* first instruction counts the declared locals (0 for add, 1 for main).
ReservedDepth(f) == f.l

\* let fp_func_first_arg: i32 = 12;
fp_func_first_arg == 12

\* from_fp of a lowered local.get
LocalGetFrom(f, i) == IF i < f.p THEN fp_func_first_arg + i * 4 ELSE (-(i + 1)) * 4

\* to_fp of a lowered local.set
LocalSetTo(f, i) == (-(i + 1)) * 4

\* valida.sw 0 to(fp) from(fp) 0 0
Sw(cells, to, from) == Write(cells, to, Read(cells, from))

LocalIdxs(f) == 0 .. (f.p + f.l - 1)

\* wasm.const v, lowered to valida.imm32 at the slot of the next depth.
ValidaConst ==
  /\ vfun \in ValidaFuncs
  /\ vdepth - ReservedDepth(vfun) < MaxOperands
  /\ \E v \in ConstValues :
       /\ vcells' = Write(vcells, fp_from_wasm_stack(vdepth + 1), v)
       /\ vtop' = <<v>> \o vtop
  /\ vdepth' = vdepth + 1
  /\ vlast' = [op |-> "const", i |-> 0]
  /\ UNCHANGED <<vfun, vref, cvars, tvars, mvars, wvars>>

\* local.set i: the top operand is stored into the slot of local i.
ValidaLocalSet ==
  /\ vfun \in ValidaFuncs
  /\ vtop # <<>>
  /\ \E i \in LocalIdxs(vfun) :
       /\ vcells' = Sw(vcells, LocalSetTo(vfun, i), fp_from_wasm_stack(vdepth))
       /\ vref' = [vref EXCEPT ![i + 1] = [v |-> vtop[1], set |-> TRUE]]
       /\ vlast' = [op |-> "set", i |-> i]
  /\ vtop' = Tail(vtop)
  /\ vdepth' = vdepth - 1
  /\ UNCHANGED <<vfun, cvars, tvars, mvars, wvars>>

\* local.get i: the slot of local i is copied to the slot of the next depth.
ValidaLocalGet ==
  /\ vfun \in ValidaFuncs
  /\ vdepth - ReservedDepth(vfun) < MaxOperands
  /\ \E i \in LocalIdxs(vfun) :
       /\ vcells' = Sw(vcells, fp_from_wasm_stack(vdepth + 1), LocalGetFrom(vfun, i))
       /\ vtop' = <<vref[i + 1].v>> \o vtop
       /\ vlast' = [op |-> "get", i |-> i]
  /\ vdepth' = vdepth + 1
  /\ UNCHANGED <<vfun, vref, cvars, tvars, mvars, wvars>>

\* The return value stored to the cell of the caller's frame pointer
\* (let return_value_fp_offset = 4).
return_value_fp_offset_Four(f) == 4

\* to_fp of the store lowered before return: the first argument's cell, or the
\* cell after the frame header (8 + func_arg_num * 4).
return_value_fp_offset(f) == 8 + f.p * 4

\* The callee of func_op_lowering: $add, two parameters, one result.
CalleeParams == 2
CalleeResults == 1

\* wasm.call of $add: the operands are replaced by the result; the call stays a
\* wasm.call, and the depth recorded for the next instruction is the depth
\* recorded for the call (the return after it stores from -8(fp), depth 2).
ValidaCall ==
  /\ vfun \in ValidaFuncs
  /\ vlast.op # "return"
  /\ Len(vtop) >= CalleeParams
  /\ vtop' = <<vtop[2] + vtop[1]>> \o Drop(vtop, CalleeParams)
  /\ vdepth' = vdepth
  /\ vlast' = [op |-> "call", i |-> 0]
  /\ UNCHANGED <<vfun, vcells, vref, cvars, tvars, mvars, wvars>>

\* return: the slot of the recorded depth is stored to the return value's cell,
\* then valida.jalv leaves the function.
ValidaReturn ==
  /\ vfun \in ValidaFuncs
  /\ vlast.op # "return"
  /\ vcells' = Sw(vcells, return_value_fp_offset(vfun), fp_from_wasm_stack(vdepth))
  /\ vlast' = [op |-> "return", i |-> 0]
  /\ UNCHANGED <<vfun, vdepth, vref, vtop, cvars, tvars, mvars, wvars>>

\* ------------------------------------------------------------------------
\* Valida lowering: calls and returns between activations
\* ------------------------------------------------------------------------

\* The most parameters of the callee.
MaxParams == 3

Imm32Op(a, v) == [op |-> "imm32", a |-> a, b |-> 0, c |-> v, sym |-> ""]
SwOp(to_fp, from_fp) == [op |-> "sw", a |-> to_fp, b |-> from_fp, c |-> 0, sym |-> ""]
JalSymOp(a, c, sym) == [op |-> "jalsym", a |-> a, b |-> 0, c |-> c, sym |-> sym]
\* JalvOp::new_return_pseudo_op: valida.jalv -4(fp) 0(fp) 4(fp)
JalvOp == [op |-> "jalv", a |-> -4, b |-> 0, c |-> 4, sym |-> ""]

\* convert_call_ops with the restore value taken from the cell of the return
\* value (-8 instead of -12).
convert_call_ops_Restore8(d, sym) ==
  LET fp_last_stack_height == fp_from_wasm_stack(d)
      fp_for_return_address == fp_last_stack_height - 12
      return_fp_value == fp_for_return_address + 4
      fp_to_restore_after_call == fp_last_stack_height - 8
  IN  << Imm32Op(return_fp_value, -fp_to_restore_after_call),
         JalSymOp(fp_for_return_address, fp_for_return_address, sym) >>

\* convert_call_ops: a call at operand-stack depth d becomes the store of the
\* frame-pointer distance and the jump that links and moves the frame pointer.
convert_call_ops(d, sym) ==
  LET fp_last_stack_height == fp_from_wasm_stack(d)
      fp_for_return_address == fp_last_stack_height - 12
      return_fp_value == fp_for_return_address + 4
      fp_to_restore_after_call == fp_last_stack_height - 12
  IN  << Imm32Op(return_fp_value, -fp_to_restore_after_call),
         JalSymOp(fp_for_return_address, fp_for_return_address, sym) >>

\* convert_return_ops: the store of the top operand to the return value's cell,
\* then the return pseudo-op.
convert_return_ops(f, d) ==
  << SwOp(return_value_fp_offset(f), fp_from_wasm_stack(d)), JalvOp >>

\* wasm.const at depth d (valida.imm32 -8(fp) 0 0 0 3 at depth 1) and local.get i
\* at depth d.
LoweredConst(d, v) == Imm32Op(fp_from_wasm_stack(d + 1), v)
LoweredLocalGet(f, d, i) == SwOp(fp_from_wasm_stack(d + 1), LocalGetFrom(f, i))

\* The value main pushes as its argument i (0 = first pushed).
ArgValue(i) == 11 + i

\* The programs of the call run: main (l declared locals) pushes e operands and
\* then n arguments and calls the callee at depth l + e + n; the callee (n
\* parameters) reads its parameter i and returns it, after a call of its own
\* if nested; leaf (one parameter) returns its parameter.
CallRuns ==
  { [n |-> n, l |-> l, e |-> e, i |-> i, nested |-> b] :
      n \in 0 .. MaxParams, l \in {0, 1}, e \in {0, 1}, i \in 0 .. MaxParams, b \in BOOLEAN }

MainFunc(c) == [p |-> 0, l |-> c.l]
CalleeFunc(c) == [p |-> c.n, l |-> 0]
LeafFunc == [p |-> 1, l |-> 0]

\* Depth at which main calls, and at which the callee reads its parameter.
CallDepth(c) == ReservedDepth(MainFunc(c)) + c.e + c.n
GetDepth(c) == IF c.nested THEN 1 ELSE 0

MainCode(c) ==
  (IF c.e = 1 THEN << LoweredConst(ReservedDepth(MainFunc(c)), 5) >> ELSE <<>>)
  \o [k \in 1 .. c.n |-> LoweredConst(ReservedDepth(MainFunc(c)) + c.e + k - 1, ArgValue(k - 1))]
  \o convert_call_ops(CallDepth(c), "callee")
  \o convert_return_ops(MainFunc(c), CallDepth(c))

CalleeCode(c) ==
  (IF c.nested THEN << LoweredConst(0, 21) >> \o convert_call_ops(1, "leaf") ELSE <<>>)
  \o << IF c.n = 0 THEN LoweredConst(GetDepth(c), 9)
                   ELSE LoweredLocalGet(CalleeFunc(c), GetDepth(c), c.i) >>
  \o convert_return_ops(CalleeFunc(c), GetDepth(c) + 1)

LeafCode == << LoweredLocalGet(LeafFunc, 0, 0) >> \o convert_return_ops(LeafFunc, 1)

Linked(c) == MainCode(c) \o CalleeCode(c) \o LeafCode

SymAddr(c, sym) ==
  CASE sym = "main" -> 1
    [] sym = "callee" -> Len(MainCode(c)) + 1
    [] sym = "leaf" -> Len(MainCode(c)) + Len(CalleeCode(c)) + 1

\* The function an address lies in.
FuncAt(c, a) ==
  IF a < SymAddr(c, "callee") THEN MainFunc(c)
  ELSE IF a < SymAddr(c, "leaf") THEN CalleeFunc(c) ELSE LeafFunc

\* The address of the callee's read of its parameter, and of the stores before
\* the returns of the callee and of leaf.
GetAt(c) == SymAddr(c, "leaf") - 3
ReturnStores(c) == {SymAddr(c, "leaf") - 2, Len(Linked(c)) - 1}

\* The frame pointer main starts with.
StartFp == 4 * 64

LoweredIns == Linked(vcall)[pc]

\* The start function's return leaves the program: the run ends in front of it.
Lowered(op) ==
  /\ vcall \in CallRuns
  /\ pc \in DOMAIN Linked(vcall)
  /\ LoweredIns.op = op
  /\ op = "jalv" => \E k \in DOMAIN frames : frames[k].open

\* valida.imm32 a(fp) 0 0 0 v
ValidaImm32 ==
  /\ Lowered("imm32")
  /\ ram' = Write(ram, fp + LoweredIns.a, LoweredIns.c)
  /\ pc' = pc + 1
  /\ UNCHANGED <<vcall, fp, frames, vfun, vdepth, vcells, vref, vtop, vlast, tvars, mvars, wvars>>

\* valida.sw 0 to(fp) from(fp) 0 0
ValidaSw ==
  /\ Lowered("sw")
  /\ ram' = Write(ram, fp + LoweredIns.a, Read(ram, fp + LoweredIns.b))
  /\ pc' = pc + 1
  /\ UNCHANGED <<vcall, fp, frames, vfun, vdepth, vcells, vref, vtop, vlast, tvars, mvars, wvars>>

\* The call of a function symbol: the address after the call is stored at a(fp),
\* the frame pointer moves by c, control enters the function.
ValidaJalSym ==
  /\ Lowered("jalsym")
  /\ ram' = Write(ram, fp + LoweredIns.a, pc + 1)
  /\ fp' = fp + LoweredIns.c
  /\ pc' = SymAddr(vcall, LoweredIns.sym)
  /\ frames' = Append(frames,
                  [fp |-> fp,
                   d |-> IF pc < SymAddr(vcall, "callee") THEN CallDepth(vcall) ELSE 1,
                   n |-> IF LoweredIns.sym = "leaf" THEN LeafFunc.p ELSE vcall.n,
                   p |-> FuncAt(vcall, pc).p,
                   link |-> fp + LoweredIns.a,
                   saved |-> fp' + JalvOp.c,
                   open |-> TRUE,
                   back |-> 0])
  /\ UNCHANGED <<vcall, vfun, vdepth, vcells, vref, vtop, vlast, tvars, mvars, wvars>>

\* The innermost call that has not returned.
OpenFrame == CHOOSE k \in DOMAIN frames : frames[k].open /\ \A j \in DOMAIN frames : frames[j].open => j <= k

\* The return pseudo-op: control goes to the address in b(fp), the frame pointer
\* moves by the distance in c(fp), the address after the return is stored at a(fp).
ValidaJalv ==
  /\ Lowered("jalv")
  /\ ram' = Write(ram, fp + LoweredIns.a, pc + 1)
  /\ pc' = Read(ram, fp + LoweredIns.b)
  /\ fp' = fp + Read(ram, fp + LoweredIns.c)
  /\ frames' = [frames EXCEPT ![OpenFrame] = [@ EXCEPT !.open = FALSE, !.back = fp']]
  /\ UNCHANGED <<vcall, vfun, vdepth, vcells, vref, vtop, vlast, tvars, mvars, wvars>>

CallIdle ==
  /\ vcall = [n |-> 0, l |-> 0, e |-> 0, i |-> 0, nested |-> FALSE]
  /\ pc = 0
  /\ fp = 0
  /\ ram = NoMem
  /\ frames = <<>>

ValidaIdle ==
  /\ vfun = [p |-> 0, l |-> 0]
  /\ vdepth = 0
  /\ vcells = NoMem
  /\ vref = <<>>
  /\ vtop = <<>>
  /\ vlast = [op |-> "none", i |-> 0]
  /\ CallIdle

\* ------------------------------------------------------------------------
\* wasm dialect: br and br_if on their way through the compiler
\* ------------------------------------------------------------------------

\* The largest relative depth of a branch, and the deepest nesting it stands in.
MaxRelDepth == 2
MaxNesting == 2

\* An Operation as Verify sees it: the op it is taken for, its OpId, its numbers of
\* results and operands, and its relative_depth attribute.
BranchOps ==
  [kind : {"br", "br_if"}, opid : {"br", "br_if", "nop"},
   results : {0, 1}, operands : {0, 1}, depth : 0 .. MaxRelDepth]

\* impl Verify for BrOp / BrIfOp: the OpId is the op's own, there are no results
\* and no operands. The relative depth is not looked at.
BranchVerify(op) ==
  IF op.opid # op.kind THEN "Incorrect OpId"
  ELSE IF op.results # 0 \/ op.operands # 0 THEN "Incorrect number of results or operands"
  ELSE "Ok"

\* The lowering accepting every relative depth.
BranchInRange_Any(op, n) == TRUE

\* The lowering's MalformedBranch test: the relative depth does not exceed the
\* nesting at the branch (depth d needs d + 1 enclosing constructs).
BranchInRange(op, n) == op.depth + 1 <= n

\* The lowered branch: br d stores d + 1 in the signal register and returns
\* (nested_block_br.rs lines 112-115); br_if d returns with the flag d + 1 when
\* its condition is not 0 (fib.rs lines 262-266).
LoweredBranch(op) ==
  IF op.kind = "br"
    THEN <<N("push", op.depth + 1), N("push", SignalIdx), C("globals_set"), I("return")>>
    ELSE <<N("push", op.depth + 1), N("swap", 1), I("skiz"), I("return"), I("pop")>>

\* ------------------------------------------------------------------------
\* wasm dialect: ModuleOp and its function symbols
\* ------------------------------------------------------------------------

\* The most symbols the vector holds.
MaxSyms == 4

\* The symbol names of functions.
FuncSyms == {"f", "g"}

RECURSIVE SymLists(_)
SymLists(n) ==
  IF n = 0 THEN {<<>>}
  ELSE SymLists(n - 1) \cup
       { Append(ss, x) : ss \in { t \in SymLists(n - 1) : Len(t) = n - 1 }, x \in FuncSyms }

\* ModuleOp::append_function: the symbol name of the FuncOp is pushed to the
\* vector and the FuncOp appended to the block; the call returns len - 1.
append_function(m, sym) ==
  [syms |-> Append(m.syms, sym), ops |-> Append(m.ops, sym), index |-> Len(m.syms)]

RECURSIVE AppendAll(_, _)
AppendAll(m, functions) ==
  IF functions = <<>> THEN m ELSE AppendAll(append_function(m, Head(functions)), Tail(functions))

\* ModuleOp::new: the attribute is made from all_func_syms, then every FuncOp of
\* functions goes through append_function.
ModuleOp_new(all_func_syms, functions) ==
  AppendAll([syms |-> all_func_syms, ops |-> <<>>, index |-> 0], functions)

\* ModuleOp::get_func_sym: get_func_syms().get(func_index); "" stands for None.
get_func_sym(syms, func_index) ==
  IF func_index \in 0 .. (Len(syms) - 1) THEN syms[func_index + 1] ELSE ""

\* ModuleOp::get_func_index: the position of the first equal symbol; -1 stands
\* for None.
get_func_index(syms, func_sym) ==
  LET ps == { k \in DOMAIN syms : syms[k] = func_sym }
  IN  IF ps = {} THEN -1 ELSE (CHOOSE k \in ps : \A j \in ps : k <= j) - 1

\* A call of append_function on the module.
AppendFunction ==
  /\ wstage = "module"
  /\ Len(func_symbols) < MaxSyms
  /\ \E sym \in FuncSyms :
       LET m == append_function([syms |-> func_symbols, ops |-> mod_body, index |-> 0], sym)
       IN  /\ func_symbols' = m.syms
           /\ mod_body' = m.ops
           /\ func_indices' = Append(func_indices, [index |-> m.index, sym |-> sym])
  /\ UNCHANGED <<wop, wnest, wstage, wcode, tvars, mvars, vvars>>

ModuleOpIdle ==
  /\ func_symbols = <<>>
  /\ mod_body = <<>>
  /\ func_indices = <<>>

WasmIdle ==
  /\ wop = [kind |-> "none"]
  /\ wnest = 0
  /\ wstage = "none"
  /\ wcode = <<>>
  /\ ModuleOpIdle

\* The verifier runs on the operation.
VerifyBranch ==
  /\ wstage = "built"
  /\ wstage' = IF BranchVerify(wop) = "Ok" THEN "verified" ELSE "rejected"
  /\ UNCHANGED <<wop, wnest, wcode, ovars, tvars, mvars, vvars>>

\* The branch is lowered, or refused as malformed.
LowerBranch ==
  /\ wstage = "verified"
  /\ IF BranchInRange(wop, wnest)
       THEN wstage' = "lowered" /\ wcode' = LoweredBranch(wop)
       ELSE wstage' = "rejected" /\ UNCHANGED wcode
  /\ UNCHANGED <<wop, wnest, ovars, tvars, mvars, vvars>>

\* The lowered code reaches the emitter.
EmitBranch ==
  /\ wstage = "lowered"
  /\ wstage' = "emitted"
  /\ UNCHANGED <<wop, wnest, wcode, ovars, tvars, mvars, vvars>>

\* ------------------------------------------------------------------------
\* ir::Module: new, push_function, set_function
\* ------------------------------------------------------------------------

\* The most functions a Module is given.
MaxFuncs == 3

\* The functions and start indices Module::new is called with.
SmallFuncs == { Append(b, Inst("End", 0)) : b \in Bodies(1) }
RECURSIVE FuncLists(_)
FuncLists(n) ==
  IF n = 0 THEN {<<>>}
  ELSE FuncLists(n - 1) \cup
       { Append(fs, f) : fs \in { g \in FuncLists(n - 1) : Len(g) = n - 1 }, f \in SmallFuncs }
FuncIdxs == 0 .. MaxFuncs

\* Module::new
Module_new(functions, start_func_idx) ==
  [functions |-> functions, start_func_idx |-> start_func_idx]

\* Module::push_function: the Module afterwards (the call returns len - 1).
push_function(m, func) == [m EXCEPT !.functions = Append(m.functions, func)]

\* Module::set_function: self.functions[idx as usize] = func
set_function(m, idx, func) == [m EXCEPT !.functions[idx + 1] = func]

PushFunction ==
  /\ run = 0
  /\ Len(module.functions) < MaxFuncs
  /\ \E func \in SmallFuncs : module' = push_function(module, func)
  /\ UNCHANGED <<seed, run, fi, sink, result, prev, tvars, vvars, wvars>>

\* An idx past the end panics (index out of bounds) and changes nothing.
SetFunction ==
  /\ run = 0
  /\ \E idx \in FuncIdxs, func \in SmallFuncs :
       /\ idx < Len(module.functions)
       /\ module' = set_function(module, idx, func)
  /\ UNCHANGED <<seed, run, fi, sink, result, prev, tvars, vvars, wvars>>

\* ------------------------------------------------------------------------
\* Specifications
\* ------------------------------------------------------------------------

TritonIdle ==
  /\ entry = "none"
  /\ ip = 0
  /\ st = <<>>
  /\ js = <<>>
  /\ mem = NoMem
  /\ out = <<>>
  /\ status = "halt"
  /\ hist = <<>>

\* The fib block procedures are entered from f (the second procedure of that
\* name, the one holding their calls), itself called by the trampoline.
FibCaller == LenBefore(FibProcs, 5) + 1
FibCallOf(l) ==
  CHOOSE a \in Body("fib_b1", "f_l0_b0") \cup (FibCaller .. FibCaller + Len(FB_f_2) - 1) :
    FibProg[a] = C(l)

TritonInit ==
  /\ entry \in Entries
  /\ mem = NoMem
  /\ out = <<>>
  /\ status = "run"
  /\ hist = <<>>
  /\ IF entry \in {"fib_b1", "fib_b2"}
       THEN /\ ip = FibCallOf(IF entry = "fib_b1" THEN "f_l0_b1" ELSE "f_l0_b2")
            /\ st \in Stacks(MaxStack)
            /\ js = <<[ret |-> 2, dest |-> FibCaller]>>
       ELSE /\ ip = 1
            /\ st = <<>>
            /\ js = <<>>
  /\ MidenIdle
  /\ ValidaIdle
  /\ WasmIdle

TritonNext ==
  \/ Push \/ Pop \/ Nop \/ Add \/ Mul \/ Eq \/ Dup \/ Swap \/ Skiz
  \/ Call \/ CallAnyBlock \/ Return \/ Recurse
  \/ ReadMem \/ WriteMem \/ WriteIo \/ Halt \/ Trap

SpecTriton == TritonInit /\ [][TritonNext]_vars

\* The same machine, started on the listings and on the check variants of the
\* nested-block listing.
ChecksInit ==
  /\ entry \in Entries \cup CheckVariants
  /\ mem = NoMem
  /\ out = <<>>
  /\ status = "run"
  /\ hist = <<>>
  /\ IF entry \in {"fib_b1", "fib_b2"}
       THEN /\ ip = FibCallOf(IF entry = "fib_b1" THEN "f_l0_b1" ELSE "f_l0_b2")
            /\ st \in Stacks(MaxStack)
            /\ js = <<[ret |-> 2, dest |-> FibCaller]>>
       ELSE /\ ip = 1
            /\ st = <<>>
            /\ js = <<>>
  /\ MidenIdle
  /\ ValidaIdle
  /\ WasmIdle

SpecChecks == ChecksInit /\ [][TritonNext]_vars

\* The same machine with its inputs, started on the listings and on the listing of
\* test_add.
TritonIoInit ==
  /\ entry \in Entries \cup {"add", "fib_b0"}
  /\ mem = NoMem
  /\ out = <<>>
  /\ status = "run"
  /\ hist = <<>>
  /\ IF entry \in {"fib_b0", "fib_b1", "fib_b2"}
       THEN /\ ip = FibCallOf(CASE entry = "fib_b0" -> "f_l0_b0"
                                [] entry = "fib_b1" -> "f_l0_b1"
                                [] OTHER -> "f_l0_b2")
            /\ st \in Stacks(MaxStack)
            /\ js = <<[ret |-> 2, dest |-> FibCaller]>>
       ELSE /\ ip = 1
            /\ st = <<>>
            /\ js = <<>>
  /\ MidenIdle
  /\ ValidaIdle
  /\ WasmIdle

TritonIoNext == TritonNext \/ ReadIo \/ Divine

SpecTritonIo == TritonIoInit /\ [][TritonIoNext]_vars

\* The same machine, started on the listings and on the listings obtained by
\* outlining.
OutlinedInit ==
  /\ entry \in Entries \cup OutlinedEntries
  /\ mem = NoMem
  /\ out = <<>>
  /\ status = "run"
  /\ hist = <<>>
  /\ IF entry \in {"fib_b1", "fib_b2"}
       THEN /\ ip = FibCallOf(IF entry = "fib_b1" THEN "f_l0_b1" ELSE "f_l0_b2")
            /\ st \in Stacks(MaxStack)
            /\ js = <<[ret |-> 2, dest |-> FibCaller]>>
       ELSE /\ ip = 1
            /\ st = <<>>
            /\ js = <<>>
  /\ MidenIdle
  /\ ValidaIdle
  /\ WasmIdle

SpecOutlined == OutlinedInit /\ [][TritonNext]_vars

\* compile_module called twice on one Module; the name map of each call has an
\* iteration order of its own.
MidenInit ==
  /\ module \in Modules
  /\ seed \in Orders(module) \X Orders(module)
  /\ run = 1
  /\ fi = 0
  /\ sink = <<>>
  /\ result = NoResult
  /\ prev = NoResult
  /\ TritonIdle
  /\ ValidaIdle
  /\ WasmIdle

MidenNext == CompileFunction \/ CompileModuleEnd \/ Recompile

SpecMiden == MidenInit /\ [][MidenNext]_vars

\* compile_module on modules whose instructions all have an arm in emit_inst: one
\* function of up to MaxTableLen instructions, or two functions of one instruction,
\* each closed by its End.
MaxTableLen == 3
TableInsts ==
  {Inst("I32Const", 1), Inst("Return", 0), Inst("Dup", 0), Inst("Swap", 1), Inst("Call", 0),
   Inst("I32Add", 0), Inst("SDepth", 0), Inst("While", 0), Inst("MidenEnd", 0)}

RECURSIVE TableBodies(_)
TableBodies(n) ==
  IF n = 0 THEN {<<>>}
  ELSE TableBodies(n - 1) \cup
       { Append(b, i) : b \in { c \in TableBodies(n - 1) : Len(c) = n - 1 }, i \in TableInsts }

TableModules ==
  { [functions |-> <<Append(b, Inst("End", 0))>>, start_func_idx |-> 0] :
      b \in TableBodies(MaxTableLen) }
  \cup
  { [functions |-> <<<<i, Inst("End", 0)>>, <<j, Inst("End", 0)>>>>, start_func_idx |-> st0] :
      i \in TableInsts, j \in TableInsts, st0 \in {0, 1} }

MidenTableInit ==
  /\ module \in TableModules
  /\ seed \in Orders(module) \X Orders(module)
  /\ run = 1
  /\ fi = 0
  /\ sink = <<>>
  /\ result = NoResult
  /\ prev = NoResult
  /\ TritonIdle
  /\ ValidaIdle
  /\ WasmIdle

SpecMidenTable == MidenTableInit /\ [][MidenNext]_vars

\* A function is entered: its arguments lie above the frame header, its locals
\* are zero, the operand stack is empty.
ValidaInit ==
  /\ vfun \in ValidaFuncs
  /\ vdepth = ReservedDepth(vfun)
  /\ vcells \in [{ fp_func_first_arg + i * 4 : i \in 0 .. (vfun.p - 1) } -> ArgValues]
  /\ vref = [k \in 1 .. (vfun.p + vfun.l) |->
               [v |-> IF k <= vfun.p THEN vcells[fp_func_first_arg + (k - 1) * 4] ELSE 0,
                set |-> FALSE]]
  /\ vtop = <<>>
  /\ vlast = [op |-> "none", i |-> 0]
  /\ CallIdle
  /\ TritonIdle
  /\ MidenIdle
  /\ WasmIdle

ValidaNext == ValidaConst \/ ValidaLocalSet \/ ValidaLocalGet

SpecValida == ValidaInit /\ [][ValidaNext]_vars

\* The function lowering with calls and returns (func_op_lowering).
ValidaFuncNext ==
  \/ ValidaConst
  \/ ValidaLocalSet
  \/ ValidaLocalGet
  \/ ValidaCall
  \/ ValidaReturn

SpecValidaFunc == ValidaInit /\ [][ValidaFuncNext]_vars

\* The lowered program of main, callee and leaf, run from the entry of main.
ValidaCallInit ==
  /\ vcall \in { c \in CallRuns : c.i < c.n \/ (c.i = 0 /\ c.n = 0) }
  /\ pc = SymAddr(vcall, "main")
  /\ fp = StartFp
  /\ ram = NoMem
  /\ frames = <<>>
  /\ vfun = [p |-> 0, l |-> 0]
  /\ vdepth = 0
  /\ vcells = NoMem
  /\ vref = <<>>
  /\ vtop = <<>>
  /\ vlast = [op |-> "none", i |-> 0]
  /\ TritonIdle
  /\ MidenIdle
  /\ WasmIdle

ValidaCallNext == ValidaImm32 \/ ValidaSw \/ ValidaJalSym \/ ValidaJalv

SpecValidaCall == ValidaCallInit /\ [][ValidaCallNext]_vars

WasmInit ==
  /\ wop \in BranchOps
  /\ wnest \in 0 .. MaxNesting
  /\ wstage = "built"
  /\ wcode = <<>>
  /\ ModuleOpIdle
  /\ TritonIdle
  /\ MidenIdle
  /\ ValidaIdle

WasmNext == VerifyBranch \/ LowerBranch \/ EmitBranch

SpecWasm == WasmInit /\ [][WasmNext]_vars

\* A ModuleOp is made by ModuleOp::new and grows by append_function.
ModuleOpInit ==
  /\ \E all_func_syms \in SymLists(2), functions \in SymLists(1) :
       LET m == ModuleOp_new(all_func_syms, functions)
       IN  /\ func_symbols = m.syms
           /\ mod_body = m.ops
  /\ func_indices = <<>>
  /\ wop = [kind |-> "none"]
  /\ wnest = 0
  /\ wstage = "module"
  /\ wcode = <<>>
  /\ TritonIdle
  /\ MidenIdle
  /\ ValidaIdle

ModuleOpNext == AppendFunction

SpecModuleOp == ModuleOpInit /\ [][ModuleOpNext]_vars

\* A Module is made by Module::new and changed by push_function and set_function.
ModuleInit ==
  /\ \E fs \in FuncLists(MaxFuncs - 1), s \in FuncIdxs : module = Module_new(fs, s)
  /\ seed = <<>>
  /\ run = 0
  /\ fi = 0
  /\ sink = <<>>
  /\ result = NoResult
  /\ prev = NoResult
  /\ TritonIdle
  /\ ValidaIdle
  /\ WasmIdle

ModuleNext == PushFunction \/ SetFunction

SpecModule == ModuleInit /\ [][ModuleNext]_vars

\* ------------------------------------------------------------------------
\* Places of the listings the properties speak about
\* ------------------------------------------------------------------------

\* nested_block_br.rs line 28 (br 1), lowered at lines 112-115: the store of
\* depth + 1 into the signal register and the return that ends the inner block.
BrDepth == 1
BrStore == At("nested", "main_l0_b0_l1_b0", 2)
BrRet == At("nested", "main_l0_b0_l1_b0", 5)
\* The rest of the inner block's body and the trailing code of the outer block:
\* what lies between br 1 and the end of the block one level up.
InnerRest == Body("nested", "main_l0_b0_l1_b0") \ (1 .. BrRet)
\* The propagation check of main_l0_b0 (lines 103-105) and its trailing code.
CheckAt == At("nested", "main_l0_b0", 3)
CheckCode == {CheckAt, CheckAt + 1, CheckAt + 2}
OuterRest == Body("nested", "main_l0_b0") \ (1 .. CheckAt + 2)
\* The instruction after the call of the outer block in main (line 90).
ResumeAt ==
  1 + CHOOSE a \in Body("nested", "main") : NestedBlockBrProg[a] = C("main_l0_b0")
\* What runs while a branch unwinds: the check and the helpers it calls.
UnwindCode ==
  CheckCode \cup Body("nested", "next_br_propagation")
            \cup Body("nested", "globals_get") \cup Body("nested", "globals_set")

\* First position after i at which the run is at one of the addresses in S
\* (0 when it has not got there).
FirstAt(i, S) ==
  LET js2 == { j \in (i + 1) .. Len(T) : T[j].ip \in S }
  IN  IF js2 = {} THEN 0 ELSE CHOOSE j \in js2 : \A m \in js2 : j <= m

\* ------------------------------------------------------------------------
\* C1
\* ------------------------------------------------------------------------

CheckCont == CheckAt + 3
CheckExits(i) == {CheckCont, T[i].js[1].ret}

\* C4 as claimed: a check that reads k > 0 writes k - 1 and returns from the caller.
C4_AsClaimed ==
  entry = "nested_any" =>
    \A i \in DOMAIN T :
      T[i].ip = CheckAt =>
        LET k == Signal(T[i].mem)
            j == FirstAt(i, CheckExits(i))
        IN  j # 0 =>
              IF k = 0
                THEN T[j].ip = CheckCont /\ Signal(T[j].mem) = 0
                ELSE /\ Signal(T[j].mem) = k - 1
                     /\ T[j].ip = T[i].js[1].ret
                     /\ T[j].js = Tail(T[i].js)

\* C4 (amended): a check that reads 0 leaves 0 and lets its caller go on; a check
\* that reads k > 0 writes k - 1, and its caller returns at once, running none of
\* its trailing code, exactly when k - 1 is not 0; reading 1 it writes 0 and the
\* caller goes on with its trailing code. The check always completes.
C4_PropagationCheck ==
  entry = "nested_any" =>
    \A i \in DOMAIN T :
      T[i].ip = CheckAt =>
        LET k == Signal(T[i].mem)
            j == FirstAt(i, CheckExits(i))
        IN  /\ status = "halt" => j # 0
            /\ j # 0 =>
                 /\ T[j].st = T[i].st
                 /\ T[j].out = T[i].out
                 /\ Signal(T[j].mem) = (IF k = 0 THEN 0 ELSE k - 1)
                 /\ IF k <= 1
                      THEN T[j].ip = CheckCont /\ T[j].js = T[i].js
                      ELSE /\ T[j].ip = T[i].js[1].ret
                           /\ T[j].js = Tail(T[i].js)
                           /\ \A m \in j .. Len(T) : T[m].ip \notin OuterRest

C4_Witness ==
  /\ entry = "nested_any"
  /\ status = "halt"
  /\ \E i \in DOMAIN T :
       /\ T[i].ip = CheckAt
       /\ Signal(T[i].mem) = 1
       /\ FirstAt(i, CheckExits(i)) # 0
       /\ T[FirstAt(i, CheckExits(i))].ip = CheckCont

\* ------------------------------------------------------------------------
\* C5
\* ------------------------------------------------------------------------

\* Frames left between the branch at position i and position j of the run.
FramesLeft(i, j) == Len(T[i].js) - Len(T[j].js)

BrIfAt == At("fib_b2", "f_l0_b2_l1_b0", 0)
BrIfTaken == BrIfAt + 3
BrIfNext == BrIfAt + 5
BrIfFlag == 1
LoopBody == Body("fib_b2", "f_l0_b2_l1_b0")
LoopCaller == Body("fib_b2", "f_l0_b2")

NestedBlocks ==
  { [name |-> "main_l0_b0", level |-> 0, caller |-> "main", brs |-> {}],
    [name |-> "main_l0_b0_l1_b0", level |-> 1, caller |-> "main_l0_b0", brs |-> {1}] }

\* The same for the function of fib.rs that holds blocks (wat lines 30-128; the
\* listing calls it f, its second procedure of that name).
FibBlocks ==
  { [name |-> "f_l0_b0", level |-> 0, caller |-> "f", brs |-> {0}],
    [name |-> "f_l0_b1", level |-> 0, caller |-> "f", brs |-> {}],
    [name |-> "f_l0_b1_l1_b0", level |-> 1, caller |-> "f_l0_b1", brs |-> {0, 1}],
    [name |-> "f_l0_b1_l1_b1", level |-> 1, caller |-> "f_l0_b1", brs |-> {0}],
    [name |-> "f_l0_b2", level |-> 0, caller |-> "f", brs |-> {0}],
    [name |-> "f_l0_b2_l1_b0", level |-> 1, caller |-> "f_l0_b2", brs |-> {0}] }

Blocks(e) ==
  CASE e \in {"nested", "nested_any"} -> NestedBlocks
    [] e \in {"fib_b1", "fib_b2"} -> FibBlocks
    [] OTHER -> {}

\* The constructs nested in b, b included (two levels is all the inputs have).
Subtree(e, b) == {b} \cup { c \in Blocks(e) : c.caller = b.name }

\* Levels at which the branches of b's subtree resume: a branch of relative depth d
\* in a construct of level n targets the construct of level n - d.
TargetLevels(e, b) == UNION { { c.level - d : d \in c.brs } : c \in Subtree(e, b) }

\* Some branch under the callee b resumes at or above the level of b's caller,
\* outside the caller's trailing code.
ReachesCaller(e, b) == \E t \in TargetLevels(e, b) : t <= b.level - 1

\* The instructions that hold a call of l in the listing of e.
CallSites(e, l) == { a \in DOMAIN Prog(e) : Prog(e)[a] = C(l) }

\* A propagation check follows the call at a: the call of next_br_propagation
\* with skiz and return (nested_block_br.rs lines 103-105), or the flag test
\* push -1, add, skiz, return (fib.rs lines 159-162).
HasCheck(e, a) ==
  LET p == Prog(e)
  IN  \/ /\ a + 3 <= Len(p)
         /\ p[a + 1] = C("next_br_propagation")
         /\ p[a + 2] = I("skiz")
         /\ p[a + 3] = I("return")
      \/ /\ a + 4 <= Len(p)
         /\ p[a + 1] = N("push", -1)
         /\ p[a + 2] = I("add")
         /\ p[a + 3] = I("skiz")
         /\ p[a + 4] = I("return")

\* C6: in the listing that runs, a call of an outlined block/loop procedure is
\* followed by a propagation check exactly when some br/br_if under the callee
\* resumes at or above the caller's level; a call no contained branch reaches
\* carries no check.
C6_CheckPlacement ==
  \A b \in Blocks(entry) : \A a \in CallSites(entry, b.name) :
    HasCheck(entry, a) <=> ReachesCaller(entry, b)

\* ------------------------------------------------------------------------
\* C3, C9, C10: compile_module
\* ------------------------------------------------------------------------

\* The places <<function, instruction>> of the module whose instruction has no arm
\* in the emitter's match, and the first of them in program order.
UnsupportedAt(m) ==
  { p \in (1 .. Len(m.functions)) \X (1 .. MaxLen + 2) :
      /\ p[2] <= Len(m.functions[p[1]])
      /\ m.functions[p[1]][p[2]].k \notin TableKinds }
InOrder(p, q) == p[1] < q[1] \/ (p[1] = q[1] /\ p[2] <= q[2])
FirstUnsupported(m) == CHOOSE p \in UnsupportedAt(m) : \A q \in UnsupportedAt(m) : InOrder(p, q)

\* The proc headers of a buffer, in order, and what follows the last of them.
ProcHeaders(buf) == SelectSeq(buf, LAMBDA x : x.op = "proc")
HeaderAt(buf) == { i \in DOMAIN buf : buf[i].op = "proc" }
AfterLastHeader(buf) ==
  Len(buf) - (CHOOSE i \in HeaderAt(buf) : \A j \in HeaderAt(buf) : j <= i)
\* The headers compile_module gives the first n functions of the module.
HeadersOf(n) == [f \in 1 .. n |-> L("proc", FuncLabels[f])]

\* C3: when some function holds an instruction without an arm in the emitter's
\* match, compile_module returns UnsupportedInstruction carrying the first such
\* instruction in program order and no buffer; what had been pushed by then is
\* the procedures of the functions before it, the header of its function and at
\* most one opcode per instruction in front of it: nothing that follows it, no
\* later function, no trampoline. A module without one compiles.
C3_UnsupportedRejected ==
  result # NoResult =>
    IF UnsupportedAt(module) = {}
      THEN result.tag = "Ok"
      ELSE LET p == FirstUnsupported(module)
           IN  /\ result.tag = "Err"
               /\ result.e = module.functions[p[1]][p[2]]
               /\ result.buf = <<>>
               /\ ProcHeaders(sink) = HeadersOf(p[1])
               /\ AfterLastHeader(sink) <= p[2] - 1
               /\ \A i \in DOMAIN sink : sink[i].op \notin {"begin", "exec"}

\* The error comes from the second instruction of the first function, past a
\* supported one, and the second function opens with a different unsupported
\* instruction.
C3_Witness ==
  /\ result.tag = "Err"
  /\ Len(module.functions) = 2
  /\ FirstUnsupported(module) = <<1, 2>>
  /\ <<2, 1>> \in UnsupportedAt(module)
  /\ module.functions[2][1] # result.e

IsTrampoline(t) ==
  /\ Len(t) = 3
  /\ t[1] = I("begin")
  /\ t[2] = L("exec", FuncLabels[module.start_func_idx + 1])
  /\ t[3] = I("end")

\* C10 as claimed: the buffer opens with the trampoline, the procedures follow in
\* definition order, and no procedure precedes the trampoline.
C10_AsClaimed ==
  result.tag = "Ok" =>
    /\ IsTrampoline(SubSeq(result.buf, 1, 3))
    /\ ProcHeaders(result.buf) = HeadersOf(Len(module.functions))
    /\ \A i \in HeaderAt(result.buf) : i > 3

\* The listings of the Triton back end open with the trampoline (call of the start
\* procedure, halt); every line after it belongs to a labelled procedure.
TritonTrampolineFirst(ps) ==
  /\ ps[1].l = ""
  /\ Len(ps[1].code) = 2
  /\ ps[1].code[1].op = "call"
  /\ ps[1].code[2] = I("halt")
  /\ \A k \in 2 .. Len(ps) : ps[k].l # ""

\* C10 (amended): the Miden buffer holds one procedure per function, in definition
\* order, and closes with the trampoline begin, exec.<start function>, end: every
\* procedure precedes the trampoline and nothing follows it. (The Triton listings
\* open with their trampoline, call <start>, halt, and the procedures follow.)
C10_OutputLayout ==
  /\ result.tag = "Ok" =>
       /\ ProcHeaders(result.buf) = HeadersOf(Len(module.functions))
       /\ result.buf[1].op = "proc"
       /\ IsTrampoline(SubSeq(result.buf, Len(result.buf) - 2, Len(result.buf)))
       /\ \A i \in HeaderAt(result.buf) : i < Len(result.buf) - 2
       /\ \A i \in DOMAIN result.buf :
            result.buf[i].op \in {"begin", "exec"} => i >= Len(result.buf) - 2
  /\ TritonTrampolineFirst(NestedBlockBrProcs)
  /\ TritonTrampolineFirst(LocalsProcs)
  /\ TritonTrampolineFirst(FibProcs)

\* Two functions, the second the start function, compiled.
C10_Witness ==
  /\ result.tag = "Ok"
  /\ Len(module.functions) = 2
  /\ module.start_func_idx = 1
  /\ Len(result.buf) > 5

\* ------------------------------------------------------------------------
\* C8: locals in the Valida frame
\* ------------------------------------------------------------------------

\* C8: a local.get i that follows a local.set i, whatever ran in between that did
\* not write i, leaves on top of the operand stack the value that was set.
C8_LocalRoundTrip ==
  (vlast.op = "get" /\ vref[vlast.i + 1].set) =>
    Read(vcells, fp_from_wasm_stack(vdepth)) = vref[vlast.i + 1].v

\* ------------------------------------------------------------------------
\* C11: labels of the listings
\* ------------------------------------------------------------------------

\* The labels the listing of e defines, one entry per definition.
Labels(e) == [k \in 2 .. Len(Procs(e)) |-> Procs(e)[k].l]

\* C11: every label of the listing that runs (the name of a function or the
\* qualified block path of an outlined procedure) is defined exactly once.
C11_NameUniqueness ==
  \A j, k \in DOMAIN Labels(entry) :
    Labels(entry)[j] = Labels(entry)[k] => j = k

\* ------------------------------------------------------------------------
\* C12: malformed branches
\* ------------------------------------------------------------------------

\* The relative depth exceeds the number of enclosing Block/Loop constructs.
Malformed == wop.depth >= wnest

C13_StartIndexValid ==
  run = 0 => module.start_func_idx < Len(module.functions)

\* ------------------------------------------------------------------------
\* C14: the blocks of the wasm input and the procedures of the listing
\* ------------------------------------------------------------------------

\* The procedures of the listing that are not part of the runtime.
CompiledProcs(e) == { Procs(e)[k] : k \in { j \in DOMAIN Procs(e) : Procs(e)[j].l \notin RuntimeLabels } }

C15_StackShape == vdepth = ReservedDepth(vfun) + Len(vtop)

\* ------------------------------------------------------------------------
\* C16: the loop of f_l0_b1 (fib.rs lines 194-249)
\* ------------------------------------------------------------------------

\* The loop procedure f_l0_b1_l1_b1: its first instruction, the return that ends
\* its body (no lowered branch stands in the body), and the instruction of its
\* caller f_l0_b1 behind the call and its dispatch.
Loop1Start == At("fib_b1", "f_l0_b1_l1_b1", 0)
Loop1End == Loop1Start + Len(FB_f_l0_b1_l1_b1) - 1
Loop1After == At("fib_b1", "f_l0_b1", Len(FB_f_l0_b1) - 2)

FunctionSubtree ==
  Body("nested", "main") \cup Body("nested", "main_l0_b0") \cup Body("nested", "main_l0_b0_l1_b0")

\* The machine in s is about to read the signal register, and it is not 0.
SignalRead(s) ==
  /\ Prog("nested")[s.ip].op = "read_mem"
  /\ s.st # <<>>
  /\ s.st[1] = SignalAddr
  /\ Signal(s.mem) # 0

SameButSignal(m1, m2) ==
  \A a \in (DOMAIN m1 \cup DOMAIN m2) \ {SignalAddr} : Read(m1, a) = Read(m2, a)

expected_output == <<3, 8, 7>>

\* The call of next_br_propagation in main_l0_b0: the callee has just returned.
InnerReturned(s) == s.ip = At(entry, "main_l0_b0", 3)

\* C19: with a propagation check added behind call main_l0_b0 in main, a call
\* whose callee holds no branch that reaches main (the signal the inner block
\* returns with is at most 2), the run ends with the output of the listing as it
\* is, both for the inner block of the listing and for an inner block returning
\* with any such signal; with the check of main_l0_b0 removed the output differs.
C19_RedundantCheck ==
  status = "halt" =>
    /\ entry \in {"nested", "nested_extra"} => out = expected_output
    /\ entry \in {"nested_any", "extra_any"} =>
         \A j \in DOMAIN T :
           (InnerReturned(T[j]) /\ Signal(T[j].mem) <= BrDepth + 1) =>
             out = IF Signal(T[j].mem) <= 1 THEN <<3, 9, 7>> ELSE <<3, 7>>
    /\ entry = "nested_nocheck" => out # expected_output

\* The run with the added check has ended: the added check read the 1 the
\* check of main_l0_b0 had left and let main go on.
C19_Witness ==
  /\ entry = "nested_extra"
  /\ status = "halt"
  /\ \E j \in DOMAIN T :
       /\ T[j].ip = At(entry, "main", 3)
       /\ T[j].st # <<>> /\ T[j].st[1] = 0
       /\ Signal(T[j].mem) = 0

\* ------------------------------------------------------------------------
\* C20: instructions for which emit_inst pushes nothing
\* ------------------------------------------------------------------------

\* emit_inst returns Ok for instruction p of func and leaves the sink as it was.
SilentAt(func, p) ==
  LET res == emit_inst(func[p], <<>>)
  IN  res.ok /\ res.sink = <<>>

\* C20: in every function compile_module has compiled, an instruction for which
\* emit_inst pushed no opcode and returned Ok is a Return with the End that
\* closes the function right behind it.
C20_NoSilentDrop ==
  \A k \in 1 .. fi :
    LET func == functions_into_iter(module)[k].func
    IN  \A p \in DOMAIN func :
          SilentAt(func, p) =>
            /\ func[p].k = "Return"
            /\ p + 1 = Len(func)
            /\ func[p + 1].k = "End"

\* ------------------------------------------------------------------------
\* C21: the order of the opcodes in the sink
\* ------------------------------------------------------------------------

\* The one opcode MidenAssemblyBuilder gives an instruction that is no Return.
OpcodeOf(ins) ==
  CASE ins.k = "End" -> I("end")
    [] ins.k = "MidenEnd" -> I("end")
    [] ins.k = "Dup" -> N("dup", ins.v)
    [] ins.k = "Swap" -> N("swap", ins.v)
    [] ins.k = "Call" -> L("exec", FuncLabels[ins.v + 1])
    [] ins.k = "I32Const" -> N("push", ins.v)
    [] ins.k = "I32Add" -> I("add")
    [] ins.k = "SDepth" -> I("sdepth")
    [] ins.k = "While" -> I("while.true")

\* The instructions of func that are no Return, in their order.
NonReturn(func) == SelectSeq(func, LAMBDA x : x.k # "Return")

\* The header of function f and one opcode for each of its instructions.
ProcOf(f) ==
  <<L("proc", FuncLabels[f])>> \o
  [k \in 1 .. Len(NonReturn(module.functions[f])) |-> OpcodeOf(NonReturn(module.functions[f])[k])]

RECURSIVE ProcsUpTo(_)
ProcsUpTo(n) == IF n = 0 THEN <<>> ELSE ProcsUpTo(n - 1) \o ProcOf(n)

\* C21: while a module of supported instructions is compiled, the sink holds, for
\* the functions compiled so far in definition order, the procedure header
\* followed by one opcode per instruction that is no Return, in the instructions'
\* order; the buffer returned is that for all functions, then the trampoline.
C21_EmissionOrder ==
  /\ (run \in {1, 2} /\ result = NoResult) => sink = ProcsUpTo(fi)
  /\ result.tag = "Ok" =>
       SubSeq(result.buf, 1, Len(result.buf) - 3) = ProcsUpTo(Len(module.functions))
  /\ result.tag # "Err"

\* A function of three different instructions, among them a Return in front of
\* another instruction, has been compiled.
C21_Witness ==
  /\ result.tag = "Ok"
  /\ Len(module.functions) = 1
  /\ LET func == module.functions[1]
     IN  /\ Len(func) = 4
         /\ func[1].k = "Dup" /\ func[2].k = "Return" /\ func[3].k = "I32Add"
  /\ Len(result.buf) = 7

\* ------------------------------------------------------------------------
\* C22: the frame base across a procedure
\* ------------------------------------------------------------------------

\* The cell of the frame-base global: global -1 of the locals and add listings
\* (globals_get: push 2147483647; add, in add.rs after push 4; mul), global 0 of
\* the nested-block listing.
FrameBaseAddr(e) ==
  CASE e = "locals" -> 2147483647 + (-1)
    [] e = "add" -> 2147483647 + 4 * (-1)
    [] OTHER -> GlobalAddr(0)
FrameBase(e, m) == Read(m, FrameBaseAddr(e))

\* The start function of the listing (call main / call __main, line 1).
StartLabel(e) == Prog(e)[1].l

\* The run is at a call in state i of T; the position at which that call has
\* returned (0 when it has not).
ReturnOf(i) ==
  LET rs == { j \in (i + 1) .. Len(T) : T[j].ip = T[i].ip + 1 /\ Len(T[j].js) = Len(T[i].js) }
  IN  IF rs = {} THEN 0 ELSE CHOOSE j \in rs : \A m \in rs : j <= m
CallAt(i) == Prog(entry)[T[i].ip].op = "call" /\ ~Abstracted(entry, Prog(entry)[T[i].ip])

\* C22 as claimed: every procedure, the start function, init_mem_for_locals and
\* globals_set included, returns with the frame base it was entered with.
C22_AsClaimed ==
  entry \in {"locals", "add", "nested"} =>
    \A i \in DOMAIN T :
      (CallAt(i) /\ ReturnOf(i) # 0) =>
        FrameBase(entry, T[ReturnOf(i)].mem) = FrameBase(entry, T[i].mem)

\* C22 (amended): every procedure but globals_set, which writes the global,
\* init_mem_for_locals, which sets the frame base with it, and the start function,
\* which calls init_mem_for_locals, returns with the frame base it was entered
\* with; the start function returns with the frame base init_mem_for_locals has
\* set.
C22_FrameBaseBalance ==
  entry \in {"locals", "add", "nested"} =>
    \A i \in DOMAIN T :
      (CallAt(i) /\ ReturnOf(i) # 0) =>
        LET l == Prog(entry)[T[i].ip].l
            j == ReturnOf(i)
        IN  CASE l = "globals_set" -> TRUE
              [] l = "init_mem_for_locals" -> FrameBase(entry, T[j].mem) # 0
              [] l = StartLabel(entry) ->
                   \E k \in (i + 1) .. j :
                     /\ CallAt(k) /\ Prog(entry)[T[k].ip].l = "init_mem_for_locals"
                     /\ ReturnOf(k) # 0
                     /\ FrameBase(entry, T[j].mem) = FrameBase(entry, T[ReturnOf(k)].mem)
              [] OTHER -> FrameBase(entry, T[j].mem) = FrameBase(entry, T[i].mem)

\* add has returned to main_add for the second time, with the frame base it was
\* entered with, and in between it had moved it.
C22_Witness ==
  /\ entry = "add"
  /\ \E i \in DOMAIN T :
       /\ T[i].ip = At("add", "main_add", 4)
       /\ ReturnOf(i) # 0
       /\ \E m \in i .. ReturnOf(i) : FrameBase("add", T[m].mem) # FrameBase("add", T[i].mem)

\* ------------------------------------------------------------------------
\* C23: a Block with an empty body
\* ------------------------------------------------------------------------

\* The call of the empty Block's procedure in main.
EmptyCall == At("empty", "main", 1)

BlockReturn == At("fib_b0", "f_l0_b0", 6)
FunctionRest == (FibCaller + 5) .. (FibCaller + Len(FB_f_2) - 1)

C24_ReturnInBlock ==
  entry = "fib_b0" =>
    \A i \in DOMAIN T : \A j \in DOMAIN T :
      (T[i].ip = BlockReturn /\ j > i) => T[j].ip \notin FunctionRest

\* ------------------------------------------------------------------------
\* C25: parameter order: the callee's local.get i reads the value the caller
\* pushed as its i-th argument (0 = first pushed), for every number of
\* arguments and every i: once the callee has read its parameter i, the
\* operand it has pushed is the i-th value main pushed for the call.
\* ------------------------------------------------------------------------
C25_ParameterOrder ==
  (vcall \in CallRuns /\ vcall.n > 0 /\ pc = GetAt(vcall) + 1) =>
    Read(ram, fp + fp_from_wasm_stack(GetDepth(vcall) + 1)) = ArgValue(vcall.i)

\* C25, global-cursor style: in the listing of test_add, the operand the first
\* local.get of add pushes (local.get 1, add.rs lines 32 and 129-136) is the
\* second argument main_add pushed, the top of the stack when add was entered.
C25_ParameterOrderListing ==
  entry = "add" =>
    \A i \in DOMAIN T : \A j \in DOMAIN T :
      ( /\ T[i].ip = At("add", "add", 0)
        /\ j > i
        /\ T[j].ip = At("add", "add", 26)
        /\ \A k \in (i + 1) .. (j - 1) : T[k].ip # At("add", "add", 0) ) =>
        T[j].st[1] = T[i].st[1]

\* ------------------------------------------------------------------------
\* C26: return-value placement: for a callee with n parameters called at
\* operand-stack depth d >= n, the cell the store before the callee's return
\* writes (8 + 4n from the callee's frame pointer) is the caller's
\* operand-stack slot of depth d - n + 1, for every n >= 0; once the store is
\* done that slot holds the callee's top operand.
\* ------------------------------------------------------------------------
CallerSlot == frames[OpenFrame].fp + fp_from_wasm_stack(frames[OpenFrame].d - frames[OpenFrame].n + 1)

C26_ReturnValuePlacement ==
  (vcall \in CallRuns /\ pc \in DOMAIN Linked(vcall)) =>
    /\ pc \in ReturnStores(vcall) =>
         /\ frames[OpenFrame].d >= frames[OpenFrame].n
         /\ fp + LoweredIns.a = CallerSlot
    /\ (pc - 1) \in ReturnStores(vcall) =>
         Read(ram, CallerSlot) = Read(ram, fp + Linked(vcall)[pc - 1].b)

C26_Witness ==
  /\ vcall \in CallRuns
  /\ vcall.n = MaxParams
  /\ vcall.nested
  /\ pc = SymAddr(vcall, "leaf") - 1
  /\ Read(ram, CallerSlot) = ArgValue(MaxParams - 1 - vcall.i)

\* ------------------------------------------------------------------------
\* C27: frame-pointer restore: when a callee returns, nested calls included,
\* the frame pointer is the caller's frame pointer before the call, and the
\* cells written for the call (return address, saved frame-pointer distance)
\* are no live operand-stack slot and no argument cell of the caller.
\* ------------------------------------------------------------------------
LiveCells(f) ==
  { f.fp + fp_from_wasm_stack(k) : k \in 1 .. f.d }
    \cup { f.fp + fp_func_first_arg + 4 * i : i \in 0 .. (f.p - 1) }

C27_FramePointerRestore ==
  vcall \in CallRuns =>
    \A k \in DOMAIN frames :
      /\ ~frames[k].open => frames[k].back = frames[k].fp
      /\ frames[k].link \notin LiveCells(frames[k])
      /\ frames[k].saved \notin LiveCells(frames[k])
      /\ (~frames[k].open /\ k = 1 /\ pc = SymAddr(vcall, "callee") - 2) => fp = StartFp

C27_Witness ==
  /\ vcall \in CallRuns
  /\ vcall.nested
  /\ vcall.n = 2
  /\ vcall.e = 1
  /\ Len(frames) = 2
  /\ \A k \in DOMAIN frames : ~frames[k].open
  /\ fp = StartFp

\* ------------------------------------------------------------------------
\* C28: slot disjointness: within one activation distinct local indices have
\* distinct cells, and the operand-stack slot of every depth reached is the
\* cell of no declared local, of no parameter and of none of the three header
\* cells.  The cell of a local index is the one local.get reads.
\* ------------------------------------------------------------------------
HeaderCells == {0, 4, return_value_fp_offset([p |-> 0, l |-> 0])}

C28_SlotDisjointness ==
  vfun \in ValidaFuncs =>
    /\ \A i, j \in LocalIdxs(vfun) :
         LocalGetFrom(vfun, i) = LocalGetFrom(vfun, j) => i = j
    /\ vdepth > ReservedDepth(vfun) =>
         fp_from_wasm_stack(vdepth) \notin
           { LocalGetFrom(vfun, i) : i \in LocalIdxs(vfun) } \cup HeaderCells

\* ------------------------------------------------------------------------
\* C29: no spurious unwinding: when an outlined procedure has run to its end
\* with no branch taken in it, the propagation check behind its call goes on
\* with the caller's code and does not return, whatever branches were taken
\* and completed before.  Register protocol: after the br 1 of the first block
\* has been taken and completed, the inner block of the second block returns
\* with the signal register as it found it; the check behind its call never
\* executes its return, and the run writes 8, 6, 7.  Flag protocol (fib): a
\* procedure that ends with push 1; return is followed by a check that skips
\* its return.
\* ------------------------------------------------------------------------
ResidueCall == At("residue", "main_l0_b1", 0)

\* The callee called in state i of T left the signal register alone.
NoBranchTaken(i) == Len(T) > i /\ Signal(T[i + 1].mem) = Signal(T[i].mem)

\* State i of T is at the return that ends a procedure of the fib listing.
NormalEnd(i) ==
  /\ T[i].ip \in 2 .. Len(Prog(entry))
  /\ Prog(entry)[T[i].ip] = I("return")
  /\ Prog(entry)[T[i].ip - 1] = N("push", 1)
  /\ T[i].js # <<>>

C29_NoSpuriousUnwinding ==
  /\ entry = "residue" =>
       \A i \in DOMAIN T :
         (T[i].ip = ResidueCall /\ NoBranchTaken(i)) =>
           /\ \A j \in DOMAIN T : j > i => T[j].ip # ResidueCall + 3
           /\ status = "halt" => out = <<8, 6, 7>>
  /\ entry \in {"fib_b1", "fib_b2"} =>
       \A i \in DOMAIN T :
         (NormalEnd(i) /\ HasCheck(entry, T[i].js[1].ret - 1) /\ Len(T) >= i + 4) =>
           T[i + 4].ip = T[i].js[1].ret + 4

C29_Witness ==
  /\ entry = "residue"
  /\ status = "halt"
  /\ out = <<8, 6, 7>>
  /\ \E i \in DOMAIN T :
       T[i].ip = ResidueCall /\ NoBranchTaken(i) /\ Signal(T[i].mem) = 1

C29_WitnessFlag ==
  /\ entry = "fib_b1"
  /\ \E i \in DOMAIN T :
       NormalEnd(i) /\ HasCheck(entry, T[i].js[1].ret - 1) /\ Len(T) >= i + 4

\* ------------------------------------------------------------------------
\* C30: function-symbol index round trip: after ModuleOp::new and any
\* append_function calls, every index append_function returned denotes the
\* symbol of the function appended, now and after later appends, and
\* get_func_index(get_func_sym(i)) = i for every valid index i.
\* ------------------------------------------------------------------------
C30_SymbolIndexRoundTrip ==
  wstage = "module" =>
    /\ \A k \in DOMAIN func_indices :
         get_func_sym(func_symbols, func_indices[k].index) = func_indices[k].sym
    /\ \A i \in 0 .. (Len(func_symbols) - 1) :
         get_func_index(func_symbols, get_func_sym(func_symbols, i)) = i

\* C30, the first two parts alone: the index append_function returned denotes
\* the symbol of the function appended, and keeps denoting it.
C30_ReturnedIndexDenotes ==
  wstage = "module" =>
    \A k \in DOMAIN func_indices :
      get_func_sym(func_symbols, func_indices[k].index) = func_indices[k].sym
================================================================================
